---------------------------- MODULE Spec2Model ----------------------------
(***************************************************************************)
(* Content pipeline orchestration engine: the idea registry and mining     *)
(* queue (ContentMiner), the interview / draft session machine (SlackBot)  *)
(* and the content cycle (Scheduler).                                      *)
(*                                                                         *)
(* The process is single-threaded: a handler runs without interruption     *)
(* from one `await` of an external call to the next.  Every action below   *)
(* is one such run: the start of a handler up to its first external call,  *)
(* or the resumption of a suspended handler up to its next external call   *)
(* (or its end).  The outcome of the external call (its value, or a        *)
(* failure) is the action's input.  Consecutive external calls between     *)
(* which the handler changes no state are one suspension.                  *)
(*                                                                         *)
(* Strings are sequences of one-character strings.  Date.now() is a        *)
(* counter that is read at most once per action and advances at every      *)
(* read (two handler resumptions never share a millisecond).               *)
(***************************************************************************)
EXTENDS Integers, Sequences, FiniteSets, TLC

VARIABLES
    \* ---- TranscriptStore ----
    transcripts,        \* Map id -> [len, page]: content length, notionPageId set
    \* ---- ContentMiner ----
    ideas,              \* Map<string, ContentIdea>, in insertion order
    pendingTranscripts, \* Transcript[] awaiting the drain
    processing,         \* drain in progress
    minedTranscriptIds, \* Set<string>
    knownHooks,         \* Set<string> of normalized hooks
    drain,              \* the suspended processQueue call, if any
    mineTasks,          \* the suspended mineFromTranscripts calls
    \* ---- TldvService ----
    seenMeetingIds,     \* Set<meeting id>
    \* ---- SlackBot ----
    activeSessions,     \* Map<ts, InterviewSession>, in insertion order
    pendingDrafts,      \* Map<id, ContentDraft>, in insertion order
    lastShownIdeas,     \* ContentIdea[] (their ids)
    pendingRework,      \* {draftId, ideaId} | null
    tasks,              \* the suspended SlackBot handlers
    \* ---- environment and observation ----
    clock,              \* Date.now()
    loaded,             \* main() has run loadFromNotion
    faults,             \* external calls that have failed so far
    log                 \* what the handlers asked of the external services

vars == <<transcripts, ideas, pendingTranscripts, processing, minedTranscriptIds,
          knownHooks, drain, mineTasks, activeSessions, pendingDrafts,
          lastShownIdeas, pendingRework, tasks, clock, loaded, faults, log,
          seenMeetingIds>>

minerVars == <<ideas, pendingTranscripts, processing, minedTranscriptIds,
               knownHooks, drain, mineTasks>>

botVars == <<activeSessions, pendingDrafts, lastShownIdeas, pendingRework, tasks>>

-----------------------------------------------------------------------------
(* Bounds of the model *)

MaxTranscripts == 2     \* transcripts the provider / store ever hold
MaxReturned == 2        \* ideas in one response of the drafting service
MaxMineCalls == 1       \* mineFromTranscripts calls suspended at the same time
MaxTasks == 2           \* SlackBot / Scheduler handlers suspended at the same time
MaxCycles == 1          \* firings of the content cycle
MaxPolled == 1          \* transcripts one poll finds new
MaxIdeas == 2           \* ideas the registry ever holds
MaxFaults == 1          \* external calls that fail in one behaviour
MinerInbound == 2       \* inbound chat messages in SpecMiner
BotInbound == 4         \* inbound chat messages in SpecBot
DraftInbound == 7       \* inbound chat messages and button clicks in SpecDrafts
DraftSessions == 1      \* interviews started in SpecDrafts
MaxReworks == 2         \* clicks of a rework button
InterviewInbound == 6   \* inbound chat messages in SpecInterview
StopInbound == 5        \* inbound chat messages and button clicks in SpecStop
StopSessions == 2       \* interviews started in SpecStop
MaxBatch == 12          \* transcripts of the startup poll in SpecBatch
ChatInbound == 7        \* inbound chat messages and button clicks in SpecChat
ChatSessions == 3       \* interviews started in SpecChat
MaxStored == 5          \* transcripts the record store holds at startup in SpecLoad
MaxQueued == 7          \* transcripts the polls of SpecQueue deliver
CycleFirings == 2       \* firings of the content cycle in SpecCycle

-----------------------------------------------------------------------------
(* Strings *)

UpperChars == <<"A","B","C","D","E","F","G","H","I","J","K","L","M",
                "N","O","P","Q","R","S","T","U","V","W","X","Y","Z">>
LowerChars == <<"a","b","c","d","e","f","g","h","i","j","k","l","m",
                "n","o","p","q","r","s","t","u","v","w","x","y","z">>
DigitChars == <<"0","1","2","3","4","5","6","7","8","9">>

Range(f) == { f[i] : i \in DOMAIN f }

IsDigit(c) == c \in Range(DigitChars)
IsSpace(c) == c = " "
IsLowerAlnum(c) == c \in Range(LowerChars) \cup Range(DigitChars)

\* String.prototype.toLowerCase, one character
LowerChar(c) ==
    IF c \in Range(UpperChars)
    THEN LowerChars[CHOOSE i \in DOMAIN UpperChars : UpperChars[i] = c]
    ELSE c

ToLowerCase(s) == [i \in DOMAIN s |-> LowerChar(s[i])]

\* s.replace(/[^a-z0-9\s]/g, '')
StripNonAlnum(s) == SelectSeq(s, LAMBDA c : IsLowerAlnum(c) \/ IsSpace(c))

\* s.replace(/\s+/g, ' ')
RECURSIVE CollapseSpaces(_)
CollapseSpaces(s) ==
    IF Len(s) <= 1 THEN s
    ELSE IF IsSpace(s[1]) /\ IsSpace(s[2]) THEN CollapseSpaces(Tail(s))
    ELSE <<s[1]>> \o CollapseSpaces(Tail(s))

\* s.trim()
RECURSIVE TrimLeft(_)
TrimLeft(s) == IF s # <<>> /\ IsSpace(s[1]) THEN TrimLeft(Tail(s)) ELSE s

RECURSIVE TrimRight(_)
TrimRight(s) ==
    IF s # <<>> /\ IsSpace(s[Len(s)]) THEN TrimRight(SubSeq(s, 1, Len(s) - 1)) ELSE s

Trim(s) == TrimRight(TrimLeft(s))

\* lowercase, strip punctuation, collapse whitespace, trim
NormalizeText(s) == Trim(CollapseSpaces(StripNonAlnum(ToLowerCase(s))))

StartsWith(s, p) == Len(s) >= Len(p) /\ SubSeq(s, 1, Len(p)) = p

\* String.prototype.includes
Includes(s, p) ==
    \E i \in 1..(Len(s) + 1) : i + Len(p) - 1 <= Len(s) /\ SubSeq(s, i, i + Len(p) - 1) = p

RECURSIVE NatStr(_)
NatStr(n) ==
    IF n < 10 THEN <<DigitChars[n + 1]>>
    ELSE NatStr(n \div 10) \o <<DigitChars[(n % 10) + 1]>>

DigitValue(c) == (CHOOSE i \in DOMAIN DigitChars : DigitChars[i] = c) - 1


-----------------------------------------------------------------------------
(* Values *)

\* Transcript ids: `tldv-<meetingId>`; the model names them 1..MaxTranscripts,
\* newest first by descending id.
TranscriptIds == 1..MaxTranscripts

DrainBatchSize == 5       \* pendingTranscripts.splice(0, 5)
MineBatchSize == 10       \* const batchSize = 10
MinContentLen == 50       \* t.content.length > 50
TruncateLen == 4000       \* t.content.length > 4000
MarkerLen == 43           \* '\n\n[... transcript truncated for processing]'.length

\* Hooks the drafting service returns and the record store holds.
HookGo1 == <<"G", "o", "!">>
HookGo2 == <<"g", "o">>
HookGo3 == <<" ", "g", "O", " ">>
HookNo == <<"N", "o", ".">>
HookGSpO == <<"g", " ", " ", "o">>
HookSamples == {HookGo1, HookGo2, HookGo3, HookNo, HookGSpO}


\* Notion page ids, the ids of ideas loaded at startup.
NotionIdeaIds == << <<"7", "c", "-", "e">>, <<"a", "b", "-", "4">> >>

\* `idea-${Date.now()}-${i}`
MinedIdeaId(t, i) == <<"i", "d", "e", "a", "-">> \o NatStr(t) \o <<"-">> \o NatStr(i)

\* `draft-${Date.now()}`
DraftId(t) == <<"d", "r", "a", "f", "t", "-">> \o NatStr(t)

NoId == <<>>

-----------------------------------------------------------------------------
(* Maps kept in insertion order: a sequence of records with an `id` field *)

MapHas(map, id) == \E i \in DOMAIN map : map[i].id = id

MapIndex(map, id) == CHOOSE i \in DOMAIN map : map[i].id = id

MapGet(map, id) == map[MapIndex(map, id)]

\* Map.prototype.set: replace in place, or append
MapSet(map, rec) ==
    IF MapHas(map, rec.id)
    THEN [map EXCEPT ![MapIndex(map, rec.id)] = rec]
    ELSE Append(map, rec)

Take(s, n) == SubSeq(s, 1, IF Len(s) < n THEN Len(s) ELSE n)

Drop(s, n) == SubSeq(s, n + 1, Len(s))

SeqToSet(s) == { s[i] : i \in DOMAIN s }

\* sequences over S of length 0..n
SeqsUpTo(S, n) == UNION { [1..k -> S] : k \in 0..n }

\* the ids 1..MaxTranscripts in a set, newest (highest) first
RECURSIVE DescSeq(_)
DescSeq(S) ==
    IF S = {} THEN <<>>
    ELSE LET m == CHOOSE x \in S : \A y \in S : y <= x
         IN  <<m>> \o DescSeq(S \ {m})

-----------------------------------------------------------------------------
(* ContentMiner: pure parts *)

normalizeHook(hook) == NormalizeText(hook)

isDuplicate(hook) == normalizeHook(hook) \in knownHooks

\* a getUnprocessedIdeas without the filter on the status
getUnprocessedIdeasUnfiltered == ideas

getIdea(id) == IF MapHas(ideas, id) THEN MapGet(ideas, id) ELSE [id |-> NoId]

getUnprocessedIdeas == SelectSeq(ideas, LAMBDA i : i.status = "extracted")

\* Array.prototype.sort by createdAt, newest first (stable).  `created` is the
\* clock value at creation; ideas loaded at startup carry 0 and keep the order
\* of the record store's answer.
RECURSIVE InsertByCreated(_, _)
InsertByCreated(sorted, x) ==
    IF sorted = <<>> THEN <<x>>
    ELSE IF Head(sorted).created >= x.created
         THEN <<Head(sorted)>> \o InsertByCreated(Tail(sorted), x)
         ELSE <<x>> \o sorted

RECURSIVE SortByCreatedDesc(_)
SortByCreatedDesc(s) ==
    IF s = <<>> THEN <<>>
    ELSE InsertByCreated(SortByCreatedDesc(SubSeq(s, 1, Len(s) - 1)), s[Len(s)])

getAllIdeas == SortByCreatedDesc(ideas)

\* ContentIdea objects built by AIBrain.mineContentIdeas from the parsed
\* response `ret` (a sequence of [hook, format]) for `batch`, at time t
MinedIdeas(ret, batch, t) ==
    [i \in DOMAIN ret |->
        [id |-> MinedIdeaId(t, i - 1), hook |-> ret[i].hook, format |-> ret[i].format,
         src |-> SeqToSet(batch), status |-> "extracted", page |-> FALSE,
         created |-> t]]

SetIdeaPage(map, id) ==
    IF MapHas(map, id) THEN [map EXCEPT ![MapIndex(map, id)].page = TRUE] ELSE map

\* updateIdeaStatus, the in-memory part
SetIdeaStatus(map, id, status) ==
    IF MapHas(map, id) THEN [map EXCEPT ![MapIndex(map, id)].status = status] ELSE map

-----------------------------------------------------------------------------
(* SlackBot: the suspended handlers *)

NoDraft == [id |-> NoId, ideaId |-> NoId, format |-> "", version |-> 0,
            status |-> "", body |-> 0, page |-> FALSE]

NoRework == [draftId |-> NoId, ideaId |-> NoId]

\* kind: ping (sendContentPing), reply (handleInterviewReply), rework
\* (handleReworkFeedback), mine (handleMineCommand), cycle (runContentCycle)
NoTask == [kind |-> "none", pc |-> "free", s |-> 0, idea |-> NoId, text |-> <<>>,
           draft |-> NoDraft, rework |-> NoRework, input |-> <<>>, n |-> 0, len |-> 0]

TaskSlots == 1..MaxTasks

HasFreeSlot == \E n \in TaskSlots : tasks[n].pc = "free"

FreeSlot == CHOOSE n \in TaskSlots : tasks[n].pc = "free" /\ \A k \in 1..(n - 1) : tasks[k].pc # "free"

\* sendContentPing up to its awaits of generateInterviewOpener and postMessage
PingTask(ideaId) == [NoTask EXCEPT !.kind = "ping", !.pc = "post", !.idea = ideaId]

-----------------------------------------------------------------------------
(* ContentMiner.loadFromNotion, after TranscriptStore.loadFromNotion (main) *)

\* What the record store may hold: ideas with pairwise different normalized
\* hooks (the store is written through the same registry).
Snapshots ==
    { snap \in SeqsUpTo([hook : HookSamples, src : {{}, {1}},
                         status : {"extracted", "draft_ready"},
                         format : {"linkedin_post", "newsletter"}], Len(NotionIdeaIds)) :
        \A i, j \in DOMAIN snap :
            i # j => normalizeHook(snap[i].hook) # normalizeHook(snap[j].hook) }

LoadedIdeas(snap) ==
    [i \in DOMAIN snap |->
        [id |-> NotionIdeaIds[i], hook |-> snap[i].hook, format |-> snap[i].format,
         src |-> snap[i].src, status |-> snap[i].status, page |-> TRUE, created |-> 0]]

\* a load without lines 52-57: only the source transcripts are marked mined
LoadedMinedSourcesOnly(loadedIdeas, allTranscriptIds) ==
    UNION { loadedIdeas[i].src : i \in DOMAIN loadedIdeas }

\* lines 41-57: the transcript ids marked mined by a load
LoadedMined(loadedIdeas, allTranscriptIds) ==
    UNION { loadedIdeas[i].src : i \in DOMAIN loadedIdeas }
    \cup (IF \E i \in DOMAIN loadedIdeas : loadedIdeas[i].src = {}
          THEN allTranscriptIds ELSE {})

\* stored: the transcripts the record store returns (metadata only);
\* snap: the ideas it returns; ok: loadContentIdeas did not fail
LoadFromNotion(stored, snap, ok) ==
    /\ ~loaded
    /\ loaded' = TRUE
    /\ transcripts' = [t \in stored |-> [len |-> 0, page |-> TRUE]]
    /\ IF ok
       THEN /\ ideas' = LoadedIdeas(snap)
            /\ knownHooks' = { normalizeHook(snap[i].hook) : i \in DOMAIN snap }
            /\ minedTranscriptIds' = LoadedMined(LoadedIdeas(snap), stored)
       ELSE UNCHANGED <<ideas, knownHooks, minedTranscriptIds>>
    /\ UNCHANGED <<pendingTranscripts, processing, drain, mineTasks, clock, log,
                   seenMeetingIds>>
    /\ UNCHANGED botVars

-----------------------------------------------------------------------------
(* The handlers around the external calls of a poll and of a content cycle *)

\* a pollNewMeetings without the try of line 321, called from the job body of
\* scheduler.ts line 38, which has none either
CatchOfBarePoll(site) ==
    IF site = "pollNewMeetings" THEN "none"
    ELSE IF site = "loadTranscriptContent" THEN "mineFromTranscripts:171"
    ELSE IF site = "mineContentIdeas" THEN "mineFromTranscripts:219"
    ELSE IF site = "saveContentIdea" THEN "mineFromTranscripts:212"
    ELSE "caller"

\* the catch clause that receives an exception of the call `site`:
\* pollNewMeetings wraps its calls of the provider (content-miner.ts, lines
\* 321-401), mineFromTranscripts each of its calls (lines 161-173, 195-221,
\* 209-214), and sendContentPing has none: its caller has (scheduler.ts, lines
\* 68-106; slack-bot.ts, lines 311-368)
CatchOf(site) ==
    IF site = "pollNewMeetings" THEN "pollNewMeetings:398"
    ELSE IF site = "loadTranscriptContent" THEN "mineFromTranscripts:171"
    ELSE IF site = "mineContentIdeas" THEN "mineFromTranscripts:219"
    ELSE IF site = "saveContentIdea" THEN "mineFromTranscripts:212"
    ELSE "caller"

\* the log after the call `site` of the handler in slot `owner` has thrown
Fail(site, owner) ==
    IF CatchOf(site) = "none"
    THEN [log EXCEPT !.escaped = @ \cup {site}]
    ELSE [log EXCEPT !.caught = Append(@, [site |-> site, by |-> CatchOf(site),
                                           owner |-> owner, cycles |-> log.cycles,
                                           batches |-> Len(log.submitted)])]

\* pollNewMeetings fails after it has saved the transcripts `saved` to the
\* store: it returns [] (line 400) and queues none of them. owner: the slot
\* of the content cycle that awaits the poll, 0 for the poll job.
PollFailed(owner, saved) ==
    /\ loaded
    /\ saved \cap DOMAIN transcripts = {}
    /\ owner # 0 => (tasks[owner].kind = "cycle" /\ tasks[owner].pc = "poll")
    /\ transcripts' =
         [t \in DOMAIN transcripts \cup saved |->
            IF t \in DOMAIN transcripts THEN transcripts[t]
            ELSE [len |-> TruncateLen + 1, page |-> TRUE]]
    /\ seenMeetingIds' = seenMeetingIds \cup saved
    /\ log' = Fail("pollNewMeetings", owner)
    /\ UNCHANGED <<ideas, pendingTranscripts, processing, minedTranscriptIds, knownHooks,
                   drain, mineTasks, clock, loaded>>
    /\ UNCHANGED botVars

-----------------------------------------------------------------------------
(* ContentMiner.queueTranscript and processQueue *)

NoDrain == [pc |-> "idle", batch |-> <<>>, todo |-> <<>>, cur |-> NoId]

\* a processQueue without the test of the flag at line 100
ProcessQueueReentrant(proc, pending, dr) ==
    IF pending = <<>>
    THEN <<proc, pending, dr>>
    ELSE <<TRUE, Drop(pending, DrainBatchSize),
           [NoDrain EXCEPT !.pc = "brain", !.batch = Take(pending, DrainBatchSize)]>>

\* a processQueue that takes its batch from the end of the pending list
ProcessQueueNewestFirst(proc, pending, dr) ==
    IF proc \/ pending = <<>>
    THEN <<proc, pending, dr>>
    ELSE <<TRUE, SubSeq(pending, 1, Len(pending) - Len(Take(pending, DrainBatchSize))),
           [NoDrain EXCEPT !.pc = "brain",
                           !.batch = Drop(pending, Len(pending) - Len(Take(pending, DrainBatchSize)))]>>

\* processQueue from its start to the await of mineContentIdeas: the new values
\* of <<processing, pendingTranscripts, drain>>
ProcessQueueStart(proc, pending, dr) ==
    IF proc \/ pending = <<>>
    THEN <<proc, pending, dr>>
    ELSE <<TRUE, Drop(pending, DrainBatchSize),
           [NoDrain EXCEPT !.pc = "brain", !.batch = Take(pending, DrainBatchSize)]>>

\* queueTranscript for each of `new` in turn (the loop at the end of a poll)
RECURSIVE QueueEach(_, _, _, _)
QueueEach(new, proc, pending, dr) ==
    IF new = <<>> THEN <<proc, pending, dr>>
    ELSE LET st == ProcessQueueStart(proc, Append(pending, Head(new)), dr)
         IN  QueueEach(Tail(new), st[1], st[2], st[3])

\* The end of TldvService.pollNewMeetings for the new transcripts `new`: each
\* was saved to the transcript store (content as fetched, `page` when the
\* record store accepted it) and is queued for mining.
PollDeliver(new, lens, pages) ==
    /\ loaded
    /\ new # <<>>
    /\ \A i \in DOMAIN new : new[i] \notin DOMAIN transcripts
    /\ LET st == QueueEach(new, processing, pendingTranscripts, drain)
       IN  /\ processing' = st[1]
           /\ pendingTranscripts' = st[2]
           /\ drain' = st[3]
           /\ log' = [log EXCEPT !.submitted = IF st[3] # drain
                                                THEN Append(@, st[3].batch) ELSE @]
    /\ transcripts' =
         [t \in DOMAIN transcripts \cup SeqToSet(new) |->
            IF t \in DOMAIN transcripts THEN transcripts[t]
            ELSE LET i == CHOOSE j \in DOMAIN new : new[j] = t
                 IN  [len |-> lens[i], page |-> pages[i]]]
    /\ seenMeetingIds' = seenMeetingIds \cup SeqToSet(new)
    /\ UNCHANGED <<ideas, minedTranscriptIds, knownHooks, mineTasks, clock, loaded>>
    /\ UNCHANGED botVars

\* a `finally` that resets the flag and leaves what is pending to the next
\* enqueue
ProcessQueueFinallyOnce(pending) == <<FALSE, pending, NoDrain>>

\* the `finally` of processQueue: new values of <<processing, pending, drain>>
ProcessQueueFinally(pending) == ProcessQueueStart(FALSE, pending, NoDrain)

\* lines 111-122 for the ideas `todo` still to record, the registry being
\* `base`: ideas.set and the await of saveContentIdea, or the `finally`
DrainRecord(base, todo) ==
    IF todo = <<>>
    THEN LET st == ProcessQueueFinally(pendingTranscripts)
         IN  /\ processing' = st[1]
             /\ pendingTranscripts' = st[2]
             /\ drain' = st[3]
             /\ ideas' = base
    ELSE /\ ideas' = MapSet(base, Head(todo))
         /\ drain' = [drain EXCEPT !.pc = "save", !.cur = Head(todo).id, !.todo = Tail(todo)]
         /\ UNCHANGED <<processing, pendingTranscripts>>

\* mineContentIdeas returns `ret` to the drain (ok), or throws
DrainExtracted(ret, ok) ==
    /\ drain.pc = "brain"
    /\ IF ok
       THEN /\ clock' = (IF ret = <<>> THEN clock ELSE clock + 1)
            /\ DrainRecord(ideas, MinedIdeas(ret, drain.batch, clock + 1))
            /\ log' = [log EXCEPT
                         !.drainRecorded = @ + (IF ret = <<>> THEN 0 ELSE 1),
                         !.drainHooks = @ \cup { normalizeHook(ret[i].hook) : i \in DOMAIN ret },
                         !.submitted = IF drain'.pc = "brain"
                                       THEN Append(@, drain'.batch) ELSE @]
       ELSE /\ DrainRecord(ideas, <<>>)
            /\ log' = [log EXCEPT !.submitted = IF drain'.pc = "brain"
                                                 THEN Append(@, drain'.batch) ELSE @]
            /\ UNCHANGED clock
    /\ UNCHANGED <<transcripts, minedTranscriptIds, knownHooks, mineTasks, loaded, seenMeetingIds>>
    /\ UNCHANGED botVars

\* saveContentIdea returns to the drain (ok: the page id is kept), or throws
DrainSaved(ok) ==
    /\ drain.pc = "save"
    /\ DrainRecord(IF ok THEN SetIdeaPage(ideas, drain.cur) ELSE ideas, drain.todo)
    /\ log' = [log EXCEPT !.drainRecorded = @ + (IF drain.todo = <<>> THEN 0 ELSE 1),
                          !.submitted = IF drain'.pc = "brain"
                                        THEN Append(@, drain'.batch) ELSE @]
    /\ UNCHANGED <<transcripts, minedTranscriptIds, knownHooks, mineTasks, clock, loaded, seenMeetingIds>>
    /\ UNCHANGED botVars

-----------------------------------------------------------------------------
(* ContentMiner.mineFromTranscripts *)

\* ready: the unmined transcripts that had content at the invocation; sent: the
\* batches handed to mineContentIdeas so far (both only observed)
NoMine == [pc |-> "free", owner |-> 0, input |-> <<>>, atInvoke |-> {}, unmined |-> <<>>,
           k |-> 0, wc |-> <<>>, i |-> 0, todo |-> <<>>, cur |-> NoId, all |-> <<>>,
           ready |-> {}, sent |-> <<>>]

MineSlots == 1..MaxMineCalls

HasFreeMineSlot == \E n \in MineSlots : mineTasks[n].pc = "free"

FreeMineSlot ==
    CHOOSE n \in MineSlots :
        mineTasks[n].pc = "free" /\ \A k \in 1..(n - 1) : mineTasks[k].pc # "free"

\* mineFromTranscripts without the filter of line 146
UnminedUnfiltered(input, mined) == input

\* line 146: transcripts.filter(t => !this.minedTranscriptIds.has(t.id))
Unmined(input, mined) == SelectSeq(input, LAMBDA t : t \notin mined)

\* a loop that marks as mined only the transcripts it keeps
RECURSIVE ScanUnminedKeptOnly(_, _, _, _, _)
ScanUnminedKeptOnly(unmined, k, wc, mined, trs) ==
    IF k > Len(unmined)
    THEN [k |-> k, wc |-> wc, mined |-> mined, suspended |-> FALSE]
    ELSE LET t == unmined[k]
         IN  IF trs[t].len > MinContentLen
             THEN ScanUnminedKeptOnly(unmined, k + 1, Append(wc, t), mined \cup {t}, trs)
             ELSE IF trs[t].page
             THEN [k |-> k, wc |-> wc, mined |-> mined, suspended |-> TRUE]
             ELSE ScanUnminedKeptOnly(unmined, k + 1, wc, mined, trs)

\* lines 156-176 from position k: the loop over `unmined` up to its next await
\* of loadTranscriptContent (suspended) or to its end
RECURSIVE ScanUnmined(_, _, _, _, _)
ScanUnmined(unmined, k, wc, mined, trs) ==
    IF k > Len(unmined)
    THEN [k |-> k, wc |-> wc, mined |-> mined, suspended |-> FALSE]
    ELSE LET t == unmined[k]
         IN  IF trs[t].len > MinContentLen
             THEN ScanUnmined(unmined, k + 1, Append(wc, t), mined \cup {t}, trs)
             ELSE IF trs[t].page
             THEN [k |-> k, wc |-> wc, mined |-> mined, suspended |-> TRUE]
             ELSE ScanUnmined(unmined, k + 1, wc, mined \cup {t}, trs)

\* lines 183-187
Truncate(trs, wc) ==
    [t \in DOMAIN trs |->
        IF t \in SeqToSet(wc) /\ trs[t].len > TruncateLen
        THEN [trs[t] EXCEPT !.len = TruncateLen + MarkerLen]
        ELSE trs[t]]

\* a slice that runs to the end of the list instead of to i + batchSize
MineBatchToEnd(wc, i) == SubSeq(wc, i + 1, Len(wc))

\* line 193: withContent.slice(i, i + batchSize)
MineBatch(wc, i) == SubSeq(wc, i + 1, IF i + MineBatchSize < Len(wc) THEN i + MineBatchSize ELSE Len(wc))

\* The call from position k of the first loop to the next await or the return:
\* [task, mined, trs, done, all]
MineScan(task, k, mined, trs) ==
    LET sc == ScanUnmined(task.unmined, k, task.wc, mined, trs)
    IN  IF sc.suspended
        THEN [task |-> [task EXCEPT !.pc = "load", !.k = sc.k, !.wc = sc.wc],
              mined |-> sc.mined, trs |-> trs, done |-> FALSE, all |-> <<>>]
        ELSE IF sc.wc = <<>>
        THEN [task |-> [task EXCEPT !.pc = "free", !.k = sc.k],
              mined |-> sc.mined, trs |-> trs, done |-> TRUE, all |-> <<>>]
        ELSE [task |-> [task EXCEPT !.pc = "brain", !.k = sc.k, !.wc = sc.wc, !.i = 0],
              mined |-> sc.mined, trs |-> Truncate(trs, sc.wc), done |-> FALSE,
              all |-> <<>>]

\* mineFromTranscripts(input) from its start (lines 142-197)
MineCall(owner, input) ==
    IF input = <<>> \/ Unmined(input, minedTranscriptIds) = <<>>
    THEN [task |-> NoMine, mined |-> minedTranscriptIds, trs |-> transcripts, done |-> TRUE,
          all |-> <<>>]
    ELSE MineScan([NoMine EXCEPT !.owner = owner, !.input = input,
                                 !.atInvoke = minedTranscriptIds,
                                 !.unmined = Unmined(input, minedTranscriptIds),
                                 !.ready = { t \in SeqToSet(Unmined(input, minedTranscriptIds)) :
                                               transcripts[t].len > MinContentLen }],
                  1, minedTranscriptIds, transcripts)

\* lines 200-205: the ideas of `todo` from the first that is no duplicate
RECURSIVE SkipDuplicates(_, _)
SkipDuplicates(todo, known) ==
    IF todo # <<>> /\ normalizeHook(Head(todo).hook) \in known
    THEN SkipDuplicates(Tail(todo), known)
    ELSE todo

\* The loop over a batch's ideas `todo` (lines 200-218) up to the await of
\* saveContentIdea, else on to the next batch's mineContentIdeas, else the
\* return: [task, ideas, known, done]
MineRecord(task, todo, base, known) ==
    LET rest == SkipDuplicates(todo, known)
    IN  IF rest # <<>>
        THEN [task |-> [task EXCEPT !.pc = "save", !.cur = Head(rest).id, !.todo = Tail(rest)],
              ideas |-> MapSet(base, Head(rest)),
              known |-> known \cup {normalizeHook(Head(rest).hook)},
              done |-> FALSE]
        ELSE IF task.i + MineBatchSize < Len(task.wc)
        THEN [task |-> [task EXCEPT !.pc = "brain", !.i = @ + MineBatchSize,
                                    !.todo = <<>>, !.cur = NoId],
              ideas |-> base, known |-> known, done |-> FALSE]
        ELSE [task |-> [task EXCEPT !.pc = "free"],
              ideas |-> base, known |-> known, done |-> TRUE]

\* The caller resumes with the result `all` (idea ids): handleMineCommand
\* (lines 694-709 of slack-bot.ts) or runContentCycle (lines 89-102 of
\* scheduler.ts).
MineReturned(owner, all) ==
    IF tasks[owner].kind = "mine"
    THEN /\ lastShownIdeas' = (IF all = <<>> THEN lastShownIdeas ELSE all)
         /\ tasks' = [tasks EXCEPT ![owner] = NoTask]
    ELSE /\ tasks' = [tasks EXCEPT ![owner] = IF all = <<>> THEN NoTask ELSE PingTask(all[1])]
         /\ UNCHANGED lastShownIdeas

\* loadTranscriptContent returns content of length `len` (ok), or throws
MineLoaded(n, len, ok) ==
    /\ mineTasks[n].pc = "load"
    /\ LET task == mineTasks[n]
           t == task.unmined[task.k]
           trs == IF ok THEN [transcripts EXCEPT ![t].len = len] ELSE transcripts
           wc == IF ok /\ len > MinContentLen THEN Append(task.wc, t) ELSE task.wc
           r == MineScan([task EXCEPT !.wc = wc], task.k + 1,
                         minedTranscriptIds \cup {t}, trs)
       IN  /\ transcripts' = r.trs
           /\ minedTranscriptIds' = r.mined
           /\ mineTasks' = [mineTasks EXCEPT ![n] = IF r.done THEN NoMine ELSE r.task]
           /\ IF r.done THEN MineReturned(task.owner, r.all)
              ELSE UNCHANGED <<lastShownIdeas, tasks>>
           /\ log' = (IF ok THEN log ELSE Fail("loadTranscriptContent", task.owner))
    /\ UNCHANGED <<ideas, pendingTranscripts, processing, knownHooks, drain, clock, loaded, seenMeetingIds>>
    /\ UNCHANGED <<activeSessions, pendingDrafts, pendingRework>>

\* mineContentIdeas returns `ret` for the current batch (ok), or throws
MineExtracted(n, ret, ok) ==
    /\ mineTasks[n].pc = "brain"
    /\ LET task == mineTasks[n]
           got == IF ok THEN MinedIdeas(ret, MineBatch(task.wc, task.i), clock + 1) ELSE <<>>
           r == MineRecord([task EXCEPT !.sent = Append(@, MineBatch(task.wc, task.i))],
                           got, ideas, knownHooks)
       IN  /\ clock' = (IF got # <<>> THEN clock + 1 ELSE clock)
           /\ ideas' = r.ideas
           /\ knownHooks' = r.known
           /\ mineTasks' = [mineTasks EXCEPT ![n] = IF r.done THEN NoMine ELSE r.task]
           /\ IF r.done THEN MineReturned(task.owner, r.task.all)
              ELSE UNCHANGED <<lastShownIdeas, tasks>>
           /\ log' = (IF ok THEN log ELSE Fail("mineContentIdeas", task.owner))
    /\ UNCHANGED <<transcripts, pendingTranscripts, processing, minedTranscriptIds, drain,
                   loaded, seenMeetingIds>>
    /\ UNCHANGED <<activeSessions, pendingDrafts, pendingRework>>

\* saveContentIdea returns to mineFromTranscripts (ok), or throws
MineSaved(n, ok) ==
    /\ mineTasks[n].pc = "save"
    /\ LET task == mineTasks[n]
           base == IF ok THEN SetIdeaPage(ideas, task.cur) ELSE ideas
           r == MineRecord([task EXCEPT !.all = Append(@, task.cur)], task.todo, base, knownHooks)
       IN  /\ ideas' = r.ideas
           /\ knownHooks' = r.known
           /\ mineTasks' = [mineTasks EXCEPT ![n] = IF r.done THEN NoMine ELSE r.task]
           /\ IF r.done THEN MineReturned(task.owner, r.task.all)
              ELSE UNCHANGED <<lastShownIdeas, tasks>>
           /\ log' = (IF ok THEN log ELSE Fail("saveContentIdea", task.owner))
    /\ UNCHANGED <<transcripts, pendingTranscripts, processing, minedTranscriptIds, drain,
                   clock, loaded, seenMeetingIds>>
    /\ UNCHANGED <<activeSessions, pendingDrafts, pendingRework>>

\* TranscriptStore.getRecent(days): the stored transcripts dated on or after
\* the cutoff, newest first
getRecent(cutoff) == DescSeq({ t \in DOMAIN transcripts : t >= cutoff })

-----------------------------------------------------------------------------
(* SlackBot: inbound text *)

CmdStop == <<"s", "t", "o", "p">>
CmdDone == <<"d", "o", "n", "e">>
CmdIdeas == <<"i", "d", "e", "a", "s">>
CmdMine == <<"m", "i", "n", "e">>
CmdStatus == <<"s", "t", "a", "t", "u", "s">>
CmdHelp == <<"h", "e", "l", "p">>
CmdCancel == <<"c", "a", "n", "c", "e", "l">>
CmdWhatDoYouHave == <<"w", "h", "a", "t", " ", "d", "o", " ", "y", "o", "u", " ", "h", "a", "v", "e">>
CmdShowIdeas == <<"s", "h", "o", "w", " ", "i", "d", "e", "a", "s">>
CmdFindContent == <<"f", "i", "n", "d", " ", "c", "o", "n", "t", "e", "n", "t">>
DraftPrefix == <<"d", "r", "a", "f", "t", " ">>

\* line 324
ReplyPassThrough == {CmdStop, CmdDone, CmdIdeas, CmdMine, CmdStatus, CmdHelp,
                     CmdWhatDoYouHave, CmdShowIdeas, CmdFindContent}

\* line 345
ReworkPassThrough == {CmdStop, CmdDone, CmdIdeas, CmdMine, CmdStatus, CmdHelp, CmdCancel}

\* /^\d{1,2}$/
IsShortNumber(s) == Len(s) \in {1, 2} /\ \A i \in DOMAIN s : IsDigit(s[i])

\* lines 293-298, for text without <...> mentions or links and without
\* backquotes: the bold, italic and strike markers are removed, then trim()
FormatMarkers == {"*", "_", "~"}

StripFormatting(text) == Trim(SelectSeq(text, LAMBDA c : c \notin FormatMarkers))

NaN == 0 - 1

\* parseInt(s, 10) of a string without sign: the value of its leading digits
RECURSIVE DigitsValue(_, _)
DigitsValue(s, acc) ==
    IF s # <<>> /\ IsDigit(Head(s))
    THEN DigitsValue(Tail(s), 10 * acc + DigitValue(Head(s)))
    ELSE acc

ParseInt(s) ==
    LET t == TrimLeft(s)
    IN  IF t # <<>> /\ IsDigit(Head(t)) THEN DigitsValue(t, 0) ELSE NaN

\* command.replace('draft ', '').trim()
RECURSIVE ReplaceFirst(_, _)
ReplaceFirst(s, p) ==
    IF Len(s) < Len(p) THEN s
    ELSE IF StartsWith(s, p) THEN Drop(s, Len(p))
    ELSE <<Head(s)>> \o ReplaceFirst(Tail(s), p)

DraftInput(command) == Trim(ReplaceFirst(command, DraftPrefix))

-----------------------------------------------------------------------------
(* SlackBot: sessions and routing *)

MinMessages == 4          \* if (messages.length < 4) return false
MaxMessages == 10         \* if (messages.length >= 10) return true

\* A message's thread: NoThread for a top-level DM (no thread_ts), the key of a
\* session for a reply in its thread, OtherThread for a reply in a thread that
\* anchors no session (a delivered draft's thread)
NoThread == 0
OtherThread == 0 - 1

AgentText == <<"?">>

\* lines 150-164; the key (slackThreadTs) is the position in the map
NewSession(ideaId, t) ==
    [id |-> Len(activeSessions) + 1, ideaId |-> ideaId,
     messages |-> <<[role |-> "agent", text |-> AgentText]>>,
     status |-> "active", startedAt |-> t]

RECURSIVE LatestFrom(_, _)
LatestFrom(k, latest) ==
    IF k > Len(activeSessions) THEN latest
    ELSE IF activeSessions[k].status # "active" THEN LatestFrom(k + 1, latest)
    ELSE IF latest = 0 \/ activeSessions[k].startedAt > activeSessions[latest].startedAt
    THEN LatestFrom(k + 1, k)
    ELSE LatestFrom(k + 1, latest)

\* the first active session in insertion order instead of the latest started
getFirstActiveSession ==
    IF \E k \in DOMAIN activeSessions : activeSessions[k].status = "active"
    THEN CHOOSE k \in DOMAIN activeSessions :
            /\ activeSessions[k].status = "active"
            /\ \A j \in 1..(k - 1) : activeSessions[j].status # "active"
    ELSE 0

\* the key of the most recently started active session, 0 when there is none
getLatestActiveSession == LatestFrom(1, 0)

\* hasEnoughMaterial without line 295
hasEnoughUncapped(messages) ==
    IF Len(messages) < MinMessages THEN "false" ELSE "ask"

\* hasEnoughMaterial without line 294
hasEnoughNoMinimum(messages) ==
    IF Len(messages) >= MaxMessages THEN "true" ELSE "ask"

\* AIBrain.hasEnoughMaterial before its call of the drafting service
hasEnoughMaterial(messages) ==
    IF Len(messages) < MinMessages THEN "false"
    ELSE IF Len(messages) >= MaxMessages THEN "true"
    ELSE "ask"

\* a handler that takes a message in the thread of any session, whatever its
\* status, as a reply to it
RouteOfAnyStatus(userMessage, thread) ==
    LET lowerMsg == NormalizeText(userMessage)
        latest == getLatestActiveSession
    IN  IF thread \in DOMAIN activeSessions
        THEN [to |-> "reply", s |-> thread]
        ELSE IF /\ thread = NoThread
                /\ lowerMsg \notin ReplyPassThrough
                /\ ~IsShortNumber(lowerMsg)
                /\ latest # 0
        THEN [to |-> "reply", s |-> latest]
        ELSE IF pendingRework # NoRework /\ lowerMsg = CmdCancel
        THEN [to |-> "cancel", s |-> 0]
        ELSE IF pendingRework # NoRework /\ lowerMsg \notin ReworkPassThrough
        THEN [to |-> "rework", s |-> 0]
        ELSE [to |-> "command", s |-> 0]

\* a handler that lets the command tokens pass before it looks at the thread
RouteOfCommandsFirst(userMessage, thread) ==
    LET lowerMsg == NormalizeText(userMessage)
        latest == getLatestActiveSession
    IN  IF /\ thread \in DOMAIN activeSessions /\ activeSessions[thread].status = "active"
           /\ lowerMsg \notin ReplyPassThrough
        THEN [to |-> "reply", s |-> thread]
        ELSE IF /\ thread = NoThread
                /\ lowerMsg \notin ReplyPassThrough
                /\ ~IsShortNumber(lowerMsg)
                /\ latest # 0
        THEN [to |-> "reply", s |-> latest]
        ELSE IF pendingRework # NoRework /\ lowerMsg = CmdCancel
        THEN [to |-> "cancel", s |-> 0]
        ELSE IF pendingRework # NoRework /\ lowerMsg \notin ReworkPassThrough
        THEN [to |-> "rework", s |-> 0]
        ELSE [to |-> "command", s |-> 0]

\* a handler that looks for awaited rework feedback before the latest session
RouteOfReworkFirst(userMessage, thread) ==
    LET lowerMsg == NormalizeText(userMessage)
        latest == getLatestActiveSession
    IN  IF thread \in DOMAIN activeSessions /\ activeSessions[thread].status = "active"
        THEN [to |-> "reply", s |-> thread]
        ELSE IF pendingRework # NoRework /\ lowerMsg = CmdCancel
        THEN [to |-> "cancel", s |-> 0]
        ELSE IF pendingRework # NoRework /\ lowerMsg \notin ReworkPassThrough
        THEN [to |-> "rework", s |-> 0]
        ELSE IF /\ thread = NoThread
                /\ lowerMsg \notin ReplyPassThrough
                /\ ~IsShortNumber(lowerMsg)
                /\ latest # 0
        THEN [to |-> "reply", s |-> latest]
        ELSE [to |-> "command", s |-> 0]

\* a handler without lines 346-350: `cancel` is taken as rework feedback
RouteOfCancelAsFeedback(userMessage, thread) ==
    LET lowerMsg == NormalizeText(userMessage)
        latest == getLatestActiveSession
    IN  IF thread \in DOMAIN activeSessions /\ activeSessions[thread].status = "active"
        THEN [to |-> "reply", s |-> thread]
        ELSE IF /\ thread = NoThread
                /\ lowerMsg \notin ReplyPassThrough
                /\ ~IsShortNumber(lowerMsg)
                /\ latest # 0
        THEN [to |-> "reply", s |-> latest]
        ELSE IF pendingRework # NoRework /\ lowerMsg \notin (ReworkPassThrough \ {CmdCancel})
        THEN [to |-> "rework", s |-> 0]
        ELSE [to |-> "command", s |-> 0]

\* lines 312-360: where the message handler sends a message
RouteOf(userMessage, thread) ==
    LET lowerMsg == NormalizeText(userMessage)
        latest == getLatestActiveSession
    IN  IF thread \in DOMAIN activeSessions /\ activeSessions[thread].status = "active"
        THEN [to |-> "reply", s |-> thread]
        ELSE IF /\ thread = NoThread
                /\ lowerMsg \notin ReplyPassThrough
                /\ ~IsShortNumber(lowerMsg)
                /\ latest # 0
        THEN [to |-> "reply", s |-> latest]
        ELSE IF pendingRework # NoRework /\ lowerMsg = CmdCancel
        THEN [to |-> "cancel", s |-> 0]
        ELSE IF pendingRework # NoRework /\ lowerMsg \notin ReworkPassThrough
        THEN [to |-> "rework", s |-> 0]
        ELSE [to |-> "command", s |-> 0]

\* a handleCommand that lists the ideas for every text it does not know
CommandOfListsIdeas(text) ==
    LET command == NormalizeText(text)
    IN  IF command \in {CmdStop, CmdDone} THEN "stop"
        ELSE IF command \in {CmdStatus, CmdWhatDoYouHave} THEN "status"
        ELSE IF command \in {CmdMine, CmdFindContent} THEN "mine"
        ELSE IF StartsWith(command, DraftPrefix) \/ IsShortNumber(command) THEN "draft"
        ELSE IF command = CmdHelp THEN "help"
        ELSE "ideas"

\* lines 603-628: the branch of handleCommand
CommandOf(text) ==
    LET command == NormalizeText(text)
    IN  IF command \in {CmdStop, CmdDone} THEN "stop"
        ELSE IF command \in {CmdStatus, CmdWhatDoYouHave} THEN "status"
        ELSE IF command \in {CmdIdeas, CmdShowIdeas} THEN "ideas"
        ELSE IF command \in {CmdMine, CmdFindContent} THEN "mine"
        ELSE IF StartsWith(command, DraftPrefix) \/ IsShortNumber(command) THEN "draft"
        ELSE IF command = CmdHelp THEN "help"
        ELSE "passive"

StartTask(task) == [tasks EXCEPT ![FreeSlot] = task]

EndTask(n) == [tasks EXCEPT ![n] = NoTask]

-----------------------------------------------------------------------------
(* SlackBot.sendContentPing *)

\* generateInterviewOpener and postMessage returned (ok: with a ts), or threw
PingPosted(n, ok) ==
    /\ tasks[n].kind = "ping"
    /\ tasks' = EndTask(n)
    /\ IF ok
       THEN /\ clock' = clock + 1
            /\ activeSessions' = Append(activeSessions, NewSession(tasks[n].idea, clock + 1))
            /\ ideas' = SetIdeaStatus(ideas, tasks[n].idea, "interviewing")
       ELSE UNCHANGED <<clock, activeSessions, ideas>>
    /\ log' = (IF ok THEN log ELSE Fail("sendContentPing", n))
    /\ UNCHANGED <<transcripts, pendingTranscripts, processing, minedTranscriptIds,
                   knownHooks, drain, mineTasks, loaded, seenMeetingIds>>
    /\ UNCHANGED <<pendingDrafts, lastShownIdeas, pendingRework>>

-----------------------------------------------------------------------------
(* SlackBot.handleInterviewReply *)

\* handleInterviewReply with unshift in place of push at line 464
HandleInterviewReplyUnshift(s, userMessage, n) ==
    LET msgs == <<[role |-> "user", text |-> userMessage]>> \o activeSessions[s].messages
        idea == getIdea(activeSessions[s].ideaId)
    IN  /\ activeSessions' = [activeSessions EXCEPT ![s].messages = msgs]
        /\ tasks' = (IF idea.id = NoId THEN tasks
                     ELSE StartTask([NoTask EXCEPT !.kind = "reply", !.pc = "followup", !.s = s,
                                                   !.idea = idea.id, !.len = Len(msgs)]))
        /\ UNCHANGED <<lastShownIdeas, pendingRework>>

\* lines 463-474 and the call that follows
HandleInterviewReply(s, userMessage, n) ==
    LET msgs == Append(activeSessions[s].messages, [role |-> "user", text |-> userMessage])
        idea == getIdea(activeSessions[s].ideaId)
        enough == hasEnoughMaterial(msgs)
        pc == IF enough = "false" THEN "followup"
              ELSE IF enough = "true" THEN "sayEnough" ELSE "judge"
    IN  /\ activeSessions' = [activeSessions EXCEPT ![s].messages = msgs]
        /\ tasks' = (IF idea.id = NoId THEN tasks
                     ELSE StartTask([NoTask EXCEPT !.kind = "reply", !.pc = pc, !.s = s,
                                                   !.idea = idea.id, !.len = Len(msgs)]))
        /\ UNCHANGED <<lastShownIdeas, pendingRework>>

ReplyFrame ==
    UNCHANGED <<transcripts, pendingTranscripts, processing, minedTranscriptIds,
                knownHooks, drain, mineTasks, loaded, seenMeetingIds, lastShownIdeas, pendingRework>>

\* the drafting service's judgment arrives: "yes", "no", or the call threw
ReplyJudged(n, answer) ==
    /\ tasks[n].kind = "reply" /\ tasks[n].pc = "judge"
    /\ tasks' = (IF answer = "yes" THEN [tasks EXCEPT ![n].pc = "sayEnough"]
                 ELSE IF answer = "no" THEN [tasks EXCEPT ![n].pc = "followup"]
                 ELSE EndTask(n))
    /\ UNCHANGED <<ideas, activeSessions, pendingDrafts, clock, log>>
    /\ ReplyFrame

\* say("I think I have enough...") returned, then lines 483-491
ReplySaidEnough(n, ok) ==
    /\ tasks[n].kind = "reply" /\ tasks[n].pc = "sayEnough"
    /\ IF ok
       THEN /\ activeSessions' = [activeSessions EXCEPT ![tasks[n].s].status = "completed"]
            /\ tasks' = [tasks EXCEPT ![n].pc = "draft"]
       ELSE /\ tasks' = EndTask(n)
            /\ UNCHANGED activeSessions
    /\ UNCHANGED <<ideas, pendingDrafts, clock, log>>
    /\ ReplyFrame

\* AIBrain.generateDraft, lines 380-389
generateDraft(ideaId, format, t) ==
    [id |-> DraftId(t), ideaId |-> ideaId, format |-> format, version |-> 1,
     status |-> "draft", body |-> t, page |-> FALSE]

\* generateDraft returned (ok) or threw; then the call of saveContentDraft
ReplyDrafted(n, ok) ==
    /\ tasks[n].kind = "reply" /\ tasks[n].pc = "draft"
    /\ IF ok
       THEN /\ clock' = clock + 1
            /\ tasks' = [tasks EXCEPT ![n].pc = "saveDraft",
                                      ![n].draft = generateDraft(tasks[n].idea,
                                                      getIdea(tasks[n].idea).format, clock + 1)]
            /\ log' = [log EXCEPT !.drafts = Append(@, [id |-> DraftId(clock + 1),
                                                        ideaId |-> tasks[n].idea,
                                                        version |-> 1, s |-> tasks[n].s,
                                                        of |-> NoId])]
       ELSE /\ tasks' = EndTask(n)
            /\ UNCHANGED <<clock, log>>
    /\ UNCHANGED <<ideas, activeSessions, pendingDrafts>>
    /\ ReplyFrame

\* saveContentDraft returned (ok) or threw (caught); then updateIdeaStatus and
\* the posts of sendDraftNotification
ReplyDraftSaved(n, ok) ==
    /\ tasks[n].kind = "reply" /\ tasks[n].pc = "saveDraft"
    /\ tasks' = [tasks EXCEPT ![n].pc = "notify", ![n].draft.page = ok]
    /\ ideas' = SetIdeaStatus(ideas, tasks[n].idea, "draft_ready")
    /\ UNCHANGED <<activeSessions, pendingDrafts, clock, log>>
    /\ ReplyFrame

\* the posts of sendDraftNotification returned (ok) or one threw; then line 266
\* and, for a LinkedIn post, the request of the thread variant
ReplyNotified(n, ok) ==
    /\ tasks[n].kind = "reply" /\ tasks[n].pc = "notify"
    /\ tasks' = EndTask(n)
    /\ IF ok
       THEN /\ pendingDrafts' = MapSet(pendingDrafts, tasks[n].draft)
            /\ log' = [log EXCEPT !.threads = @ \cup
                         (IF getIdea(tasks[n].idea).format = "linkedin_post"
                          THEN {tasks[n].draft.id} ELSE {})]
       ELSE UNCHANGED <<pendingDrafts, log>>
    /\ UNCHANGED <<ideas, activeSessions, clock>>
    /\ ReplyFrame

\* generateFollowUp returned (ok) or threw; then lines 523-532
ReplyFollowedUp(n, ok) ==
    /\ tasks[n].kind = "reply" /\ tasks[n].pc = "followup"
    /\ tasks' = EndTask(n)
    /\ activeSessions' =
         (IF ok THEN [activeSessions EXCEPT ![tasks[n].s].messages =
                          Append(@, [role |-> "agent", text |-> AgentText])]
          ELSE activeSessions)
    /\ UNCHANGED <<ideas, pendingDrafts, clock, log>>
    /\ ReplyFrame

-----------------------------------------------------------------------------
(* SlackBot.handleReworkFeedback *)

\* handleReworkFeedback without line 543
KeptRework == pendingRework

\* line 543: this.pendingRework = null
ClearedRework == NoRework

\* lines 539-553
HandleReworkFeedback(feedback, n) ==
    /\ pendingRework' = ClearedRework
    /\ tasks' = (IF MapHas(pendingDrafts, pendingRework.draftId)
                 THEN StartTask([NoTask EXCEPT !.kind = "rework", !.pc = "say",
                                               !.rework = pendingRework,
                                               !.text = feedback, !.n = n])
                 ELSE tasks)
    /\ UNCHANGED <<activeSessions, lastShownIdeas>>

\* a handler that ends on a failure without telling the user
ReworkErrorSilent(n, line) == log

\* the handler of message n reports a failure of the rework to the user: the
\* say of line 547 (draft not in the cache), of line 595 (the catch of the
\* handler) or of line 364 (the catch of the listener)
ReworkError(n, line) ==
    [log EXCEPT !.reworkErrors = Append(@, [n |-> n, line |-> line])]

ReworkFrame ==
    UNCHANGED <<transcripts, ideas, pendingTranscripts, processing, minedTranscriptIds,
                knownHooks, drain, mineTasks, loaded, seenMeetingIds, activeSessions, lastShownIdeas,
                pendingRework>>

\* say("Reworking the draft...") returned (ok) or threw; then the call of
\* reworkDraft with the feedback
ReworkSaid(n, ok) ==
    /\ tasks[n].kind = "rework" /\ tasks[n].pc = "say"
    /\ IF ok
       THEN /\ tasks' = [tasks EXCEPT ![n].pc = "rework"]
            /\ log' = [log EXCEPT !.reworkCalls = Append(@, tasks[n].n)]
       ELSE /\ tasks' = EndTask(n)
            /\ log' = ReworkError(tasks[n].n, 364)
    /\ UNCHANGED <<pendingDrafts, clock>>
    /\ ReworkFrame

\* a rework that edits the draft in place: lines 564-571 without a new id
ReworkedInPlace(draft, t) ==
    [draft EXCEPT !.body = t, !.version = draft.version + 1, !.status = "draft"]

\* lines 564-571: { ...draft, id, body, version: draft.version + 1, status }
ReworkedDraft(draft, t) ==
    [draft EXCEPT !.id = DraftId(t), !.body = t, !.version = draft.version + 1,
                  !.status = "draft"]

\* reworkDraft returned (ok) or threw (caught); then the call of saveContentDraft
ReworkDone(n, ok) ==
    /\ tasks[n].kind = "rework" /\ tasks[n].pc = "rework"
    /\ IF ok
       THEN /\ clock' = clock + 1
            /\ tasks' = [tasks EXCEPT ![n].pc = "save",
                            ![n].draft = ReworkedDraft(MapGet(pendingDrafts, tasks[n].rework.draftId),
                                                       clock + 1)]
            /\ log' = [log EXCEPT !.drafts = Append(@,
                           [id |-> DraftId(clock + 1),
                            ideaId |-> MapGet(pendingDrafts, tasks[n].rework.draftId).ideaId,
                            version |-> MapGet(pendingDrafts, tasks[n].rework.draftId).version + 1,
                            s |-> 0, of |-> tasks[n].rework.draftId])]
       ELSE /\ tasks' = EndTask(n)
            /\ log' = ReworkError(tasks[n].n, 595)
            /\ UNCHANGED clock
    /\ UNCHANGED pendingDrafts
    /\ ReworkFrame

\* saveContentDraft returned (ok) or threw (caught); then the posts of
\* sendDraftNotification
ReworkSaved(n, ok) ==
    /\ tasks[n].kind = "rework" /\ tasks[n].pc = "save"
    /\ tasks' = [tasks EXCEPT ![n].pc = "notify",
                              ![n].draft.page = IF ok THEN TRUE ELSE @]
    /\ UNCHANGED <<pendingDrafts, clock, log>>
    /\ ReworkFrame

\* the posts of sendDraftNotification returned (ok) or one threw (caught)
ReworkNotified(n, ok) ==
    /\ tasks[n].kind = "rework" /\ tasks[n].pc = "notify"
    /\ tasks' = EndTask(n)
    /\ pendingDrafts' = (IF ok THEN MapSet(pendingDrafts, tasks[n].draft) ELSE pendingDrafts)
    /\ log' = (IF ok THEN log ELSE ReworkError(tasks[n].n, 595))
    /\ UNCHANGED clock
    /\ ReworkFrame

-----------------------------------------------------------------------------
(* SlackBot.handleCommand *)

IdeasShown == 10          \* ideas.slice(0, 10)
MaxPosition == 99         \* num >= 1 && num <= 99

IdsOf(list) == [i \in DOMAIN list |-> list[i].id]

\* handleDraftCommand without the test of line 723: a position beyond the end
\* of the list selects its last idea
DraftTargetClamped(command) ==
    LET num == ParseInt(DraftInput(command))
        list == IF lastShownIdeas # <<>> THEN lastShownIdeas ELSE IdsOf(getAllIdeas)
    IN  IF num # NaN /\ num >= 1 /\ list # <<>>
        THEN list[IF num <= Len(list) THEN num ELSE Len(list)]
        ELSE NoId

\* lines 713-749: the id of the idea handleDraftCommand starts an interview
\* for, NoId when it replies that there is none
DraftTarget(command) ==
    LET input == DraftInput(command)
        num == ParseInt(input)
        all == getAllIdeas
        list == IF lastShownIdeas # <<>> THEN lastShownIdeas ELSE IdsOf(all)
        fuzzy == { i \in DOMAIN all : Includes(all[i].id, input) \/ Includes(input, all[i].id) }
    IN  IF num # NaN /\ num >= 1 /\ num <= MaxPosition
        THEN (IF num <= Len(list) THEN list[num] ELSE NoId)
        ELSE IF MapHas(ideas, input) THEN input
        ELSE IF fuzzy # {} THEN all[CHOOSE i \in fuzzy : \A j \in fuzzy : i <= j].id
        ELSE NoId

\* lines 713-752: what handleDraftCommand answers with: the opener of an
\* interview ("ping"), "No idea at position N" or "Can't find idea with ID"
DraftReply(command) ==
    LET num == ParseInt(DraftInput(command))
        list == IF lastShownIdeas # <<>> THEN lastShownIdeas ELSE IdsOf(getAllIdeas)
    IN  IF num # NaN /\ num >= 1 /\ num <= MaxPosition /\ num > Len(list) THEN "position"
        ELSE IF DraftTarget(command) = NoId THEN "unknown"
        ELSE "ping"

\* the number N of a message that reads `draft N` or N, else NaN
AskedPosition(userMessage) ==
    LET command == NormalizeText(userMessage)
    IN  IF StartsWith(command, DraftPrefix) \/ IsShortNumber(command)
        THEN ParseInt(DraftInput(command))
        ELSE NaN

\* the idea of the registry whose identifier a message `draft <id>` spells
\* out, else NoId
AskedIdea(userMessage) ==
    IF \E i \in DOMAIN ideas : userMessage = DraftPrefix \o ideas[i].id
    THEN ideas[CHOOSE i \in DOMAIN ideas : userMessage = DraftPrefix \o ideas[i].id].id
    ELSE NoId

\* lines 605-612: the sessions after `stop` / `done`
StopLatest ==
    IF getLatestActiveSession # 0
    THEN [activeSessions EXCEPT ![getLatestActiveSession].status = "abandoned"]
    ELSE activeSessions

\* handleCommand up to the first await of the command's handler; the rework
\* state was cleared at line 356 if there was one
HandleCommand(text, cutoff) ==
    LET cmd == CommandOf(text)
    IN  /\ pendingRework' = NoRework
        /\ activeSessions' = (IF cmd = "stop" THEN StopLatest ELSE activeSessions)
        /\ lastShownIdeas' =
             (IF cmd = "ideas" /\ getUnprocessedIdeas # <<>>
              THEN IdsOf(Take(getUnprocessedIdeas, IdeasShown))
              ELSE lastShownIdeas)
        /\ tasks' =
             (IF cmd = "mine" /\ getRecent(cutoff) # <<>>
              THEN StartTask([NoTask EXCEPT !.kind = "mine", !.pc = "say",
                                            !.input = getRecent(cutoff)])
              ELSE IF cmd = "draft" /\ DraftTarget(NormalizeText(text)) # NoId
              THEN StartTask(PingTask(DraftTarget(NormalizeText(text))))
              ELSE tasks)

\* The message handler (lines 273-369) for the owner's message `text` in
\* `thread`, up to the first await after event.ack(); acks resolve in arrival
\* order.  cutoff: the date 90 days back, for a `mine` command.
OnMessage(text, thread, cutoff) ==
    /\ loaded
    /\ HasFreeSlot
    /\ LET userMessage == StripFormatting(text)
           r == RouteOf(userMessage, thread)
           n == log.inbound + 1
       IN  /\ CASE r.to = "reply" -> HandleInterviewReply(r.s, userMessage, n)
                [] r.to = "cancel" -> /\ pendingRework' = NoRework
                                      /\ UNCHANGED <<activeSessions, lastShownIdeas, tasks>>
                [] r.to = "rework" -> HandleReworkFeedback(userMessage, n)
                [] r.to = "command" -> HandleCommand(userMessage, cutoff)
           /\ log' = [log EXCEPT
                        !.inbound = n,
                        !.last = [to |-> IF r.to = "command"
                                         THEN CommandOf(userMessage) ELSE r.to,
                                  s |-> r.s, thread |-> thread,
                                  num |-> AskedPosition(userMessage),
                                  id |-> AskedIdea(userMessage), was |-> "",
                                  said |-> NormalizeText(userMessage),
                                  reply |-> IF r.to = "command" /\ CommandOf(userMessage) = "draft"
                                            THEN DraftReply(NormalizeText(userMessage))
                                            ELSE IF r.to = "cancel" THEN "cancelled"
                                            ELSE ""],
                        !.afterClick = IF log.reworkClicks > 0 /\ Len(@) < 2
                                       THEN Append(@, [n |-> n, to |-> r.to])
                                       ELSE @,
                        !.reworkErrors =
                            IF r.to = "rework" /\ ~MapHas(pendingDrafts, pendingRework.draftId)
                            THEN Append(@, [n |-> n, line |-> 547])
                            ELSE @]
    /\ UNCHANGED <<transcripts, ideas, pendingTranscripts, processing, minedTranscriptIds,
                   knownHooks, drain, mineTasks, loaded, seenMeetingIds, pendingDrafts, clock>>

\* say("Mining ... transcripts") returned (ok) or threw; then mineFromTranscripts
MineSaid(n, ok) ==
    /\ tasks[n].kind = "mine" /\ tasks[n].pc = "say"
    /\ HasFreeMineSlot
    /\ IF ok
       THEN LET r == MineCall(n, tasks[n].input)
            IN  /\ minedTranscriptIds' = r.mined
                /\ transcripts' = r.trs
                /\ log' = [log EXCEPT !.mineCall = [input |-> tasks[n].input,
                                                    atInvoke |-> minedTranscriptIds,
                                                    suspended |-> ~r.done, all |-> r.all]]
                /\ IF r.done
                   THEN /\ MineReturned(n, r.all)
                        /\ UNCHANGED mineTasks
                   ELSE /\ mineTasks' = [mineTasks EXCEPT ![FreeMineSlot] = r.task]
                        /\ tasks' = [tasks EXCEPT ![n].pc = "mining"]
                        /\ UNCHANGED lastShownIdeas
       ELSE /\ tasks' = EndTask(n)
            /\ UNCHANGED <<minedTranscriptIds, transcripts, log, mineTasks, lastShownIdeas>>
    /\ UNCHANGED <<ideas, pendingTranscripts, processing, knownHooks, drain, loaded, seenMeetingIds, clock>>
    /\ UNCHANGED <<activeSessions, pendingDrafts, pendingRework>>

-----------------------------------------------------------------------------
(* SlackBot: the buttons of a delivered draft (lines 372-452) *)

NoRoute == [to |-> "none", s |-> 0, thread |-> 0, num |-> NaN, id |-> NoId, reply |-> "",
            was |-> "", said |-> <<>>]

\* a draft id that is not in the cache (delivered before a restart)
StaleDraftId == <<"d", "r", "a", "f", "t", "-", "0">>

ButtonFrame ==
    UNCHANGED <<transcripts, ideas, pendingTranscripts, processing, minedTranscriptIds,
                knownHooks, drain, mineTasks, loaded, seenMeetingIds, activeSessions, lastShownIdeas,
                tasks, clock>>

\* the status of the cached draft draftId, "" when it is not cached
StatusOf(draftId) ==
    IF MapHas(pendingDrafts, draftId) THEN MapGet(pendingDrafts, draftId).status ELSE ""

\* an approve button that switches between `approved` and `draft`
OnApproveToggle(draftId) ==
    /\ loaded
    /\ pendingDrafts' =
         (IF MapHas(pendingDrafts, draftId)
          THEN [pendingDrafts EXCEPT ![MapIndex(pendingDrafts, draftId)].status =
                                        IF @ = "approved" THEN "draft" ELSE "approved"]
          ELSE pendingDrafts)
    /\ log' = [log EXCEPT !.inbound = @ + 1,
                          !.last = [NoRoute EXCEPT !.to = "approve", !.id = draftId,
                                                   !.was = StatusOf(draftId),
                                                   !.reply = IF MapHas(pendingDrafts, draftId)
                                                             THEN "approved" ELSE "notfound"]]
    /\ UNCHANGED pendingRework
    /\ ButtonFrame

\* lines 383-404
OnApprove(draftId) ==
    /\ loaded
    /\ pendingDrafts' =
         (IF MapHas(pendingDrafts, draftId)
          THEN [pendingDrafts EXCEPT ![MapIndex(pendingDrafts, draftId)].status = "approved"]
          ELSE pendingDrafts)
    /\ log' = [log EXCEPT !.inbound = @ + 1,
                          !.last = [NoRoute EXCEPT !.to = "approve", !.id = draftId,
                                                   !.was = StatusOf(draftId),
                                                   !.reply = IF MapHas(pendingDrafts, draftId)
                                                             THEN "approved" ELSE "notfound"]]
    /\ UNCHANGED pendingRework
    /\ ButtonFrame

OnRework(draftId) ==
    /\ loaded
    /\ pendingRework' =
         (IF MapHas(pendingDrafts, draftId)
          THEN [draftId |-> draftId, ideaId |-> MapGet(pendingDrafts, draftId).ideaId]
          ELSE pendingRework)
    /\ log' = [log EXCEPT !.inbound = @ + 1, !.reworkClicks = @ + 1, !.afterClick = <<>>,
                          !.last = [NoRoute EXCEPT !.to = "click", !.id = draftId]]
    /\ UNCHANGED pendingDrafts
    /\ ButtonFrame

\* a syndicate button that converts every cached draft
OnSyndicateAnyFormat(draftId) ==
    /\ loaded
    /\ log' = [log EXCEPT !.inbound = @ + 1,
                          !.last = [NoRoute EXCEPT !.to = "syndicate", !.id = draftId,
                                                   !.reply = IF MapHas(pendingDrafts, draftId)
                                                             THEN "thread" ELSE "guidance"],
                          !.threads = @ \cup
                             (IF MapHas(pendingDrafts, draftId) THEN {draftId} ELSE {})]
    /\ UNCHANGED <<pendingDrafts, pendingRework>>
    /\ ButtonFrame

\* lines 420-438: syndicateToXThread is called and its result posted (reply
\* "thread"), or the guidance message is posted
OnSyndicate(draftId) ==
    /\ loaded
    /\ log' = [log EXCEPT !.inbound = @ + 1,
                          !.last = [NoRoute EXCEPT
                                      !.to = "syndicate", !.id = draftId,
                                      !.reply = IF /\ MapHas(pendingDrafts, draftId)
                                                   /\ MapGet(pendingDrafts, draftId).format
                                                         = "linkedin_post"
                                                THEN "thread" ELSE "guidance"],
                          !.threads = @ \cup
                             (IF MapHas(pendingDrafts, draftId)
                                 /\ MapGet(pendingDrafts, draftId).format = "linkedin_post"
                              THEN {draftId} ELSE {})]
    /\ UNCHANGED <<pendingDrafts, pendingRework>>
    /\ ButtonFrame

-----------------------------------------------------------------------------
(* Scheduler.runContentCycle *)

\* a firing of the content-cycle job: up to the await of pollNewMeetings
CycleFire ==
    /\ loaded
    /\ HasFreeSlot
    /\ tasks' = StartTask([NoTask EXCEPT !.kind = "cycle", !.pc = "poll"])
    /\ log' = [log EXCEPT !.cycles = @ + 1]
    /\ UNCHANGED <<transcripts, ideas, pendingTranscripts, processing, minedTranscriptIds,
                   knownHooks, drain, mineTasks, loaded, seenMeetingIds, clock>>
    /\ UNCHANGED <<activeSessions, pendingDrafts, lastShownIdeas, pendingRework>>

\* pollNewMeetings returned (it catches its own failures); lines 73-102.
\* cutoff: the date 7 days back.
CyclePolled(n, cutoff) ==
    /\ tasks[n].kind = "cycle" /\ tasks[n].pc = "poll"
    /\ IF getUnprocessedIdeas # <<>>
       THEN /\ tasks' = [tasks EXCEPT ![n] = PingTask(getUnprocessedIdeas[1].id)]
            /\ UNCHANGED <<minedTranscriptIds, transcripts, log, mineTasks, lastShownIdeas>>
       ELSE IF getRecent(cutoff) = <<>>
       THEN /\ tasks' = EndTask(n)
            /\ UNCHANGED <<minedTranscriptIds, transcripts, log, mineTasks, lastShownIdeas>>
       ELSE /\ HasFreeMineSlot
            /\ LET r == MineCall(n, getRecent(cutoff))
               IN  /\ minedTranscriptIds' = r.mined
                   /\ transcripts' = r.trs
                   /\ log' = [log EXCEPT !.mineCall = [input |-> getRecent(cutoff),
                                                       atInvoke |-> minedTranscriptIds,
                                                       suspended |-> ~r.done, all |-> r.all]]
                   /\ IF r.done
                      THEN /\ MineReturned(n, r.all)
                           /\ UNCHANGED mineTasks
                      ELSE /\ mineTasks' = [mineTasks EXCEPT ![FreeMineSlot] = r.task]
                           /\ tasks' = [tasks EXCEPT ![n].pc = "mining"]
                           /\ UNCHANGED lastShownIdeas
    /\ UNCHANGED <<ideas, pendingTranscripts, processing, knownHooks, drain, loaded, seenMeetingIds, clock>>
    /\ UNCHANGED <<activeSessions, pendingDrafts, pendingRework>>

-----------------------------------------------------------------------------
(* Initial state: after construction (index.ts, lines 17-23) *)

\* log, the observations: drainRecorded / drainHooks, the ideas the drain has
\* recorded and the normalized hooks returned to it; inbound, the messages and
\* clicks received; cycles, the firings of the content cycle; last, the route
\* of the last message; reworkClicks, the clicks of a rework button and
\* afterClick, the first two messages since the last of them; reworkCalls, the
\* messages passed to reworkDraft; threads, the drafts for which a thread
\* variant was requested; mineCall, the last call of mineFromTranscripts;
\* drafts, the drafts created, in order; submitted, the batches the drain
\* has passed to mineContentIdeas, in order; caught, the failures of external
\* calls inside a poll or a content cycle that a handler caught, and escaped,
\* the calls whose failure no handler caught; reworkErrors, the error
\* messages sent for a failed rework; updates, the calls of updateIdeaStatus
\* made directly; polls, the calls of pollNewMeetings modelled await by
\* await, and lastFetch, what getTranscript returned in the last step.

NoMineCall == [input |-> <<>>, atInvoke |-> {}, suspended |-> FALSE, all |-> <<>>]

Init ==
    /\ transcripts = <<>>
    /\ ideas = <<>>
    /\ pendingTranscripts = <<>>
    /\ processing = FALSE
    /\ minedTranscriptIds = {}
    /\ knownHooks = {}
    /\ drain = NoDrain
    /\ mineTasks = [n \in MineSlots |-> NoMine]
    /\ activeSessions = <<>>
    /\ pendingDrafts = <<>>
    /\ lastShownIdeas = <<>>
    /\ pendingRework = NoRework
    /\ tasks = [n \in TaskSlots |-> NoTask]
    /\ clock = 0
    /\ loaded = FALSE
    /\ seenMeetingIds = {}
    /\ faults = 0
    /\ log = [drainRecorded |-> 0, drainHooks |-> {}, inbound |-> 0, cycles |-> 0,
              last |-> NoRoute, reworkCalls |-> <<>>, reworkClicks |-> 0, threads |-> {},
              mineCall |-> NoMineCall, drafts |-> <<>>, afterClick |-> <<>>,
              reworkErrors |-> <<>>, updates |-> <<>>, polls |-> 0,
              lastFetch |-> [m |-> 0, ready |-> FALSE],
              submitted |-> <<>>, caught |-> <<>>, escaped |-> {}]

-----------------------------------------------------------------------------
(* SpecMiner: startup load, polls, the drain, on-demand mining (by the       *)
(* `mine` command and by the content cycle)                                  *)

TextMine == <<"M", "i", "n", "e", "!">>

\* what the record store holds at startup
MinerSnaps ==
    { snap \in Snapshots :
        /\ Len(snap) <= 1
        /\ \A i \in DOMAIN snap : /\ snap[i].hook = HookGo3
                                  /\ snap[i].status = "draft_ready"
                                  /\ snap[i].format = "linkedin_post" }

\* the parsed responses of the drafting service to a mining request
Returned ==
    { ret \in SeqsUpTo([hook : {HookGo1, HookGo2}, format : {"linkedin_post"}], MaxReturned) :
        ret # <<>> => ret[1].hook = HookGo1 }

\* the transcripts a poll finds new, in the provider's order
NewTranscripts ==
    { new \in SeqsUpTo(TranscriptIds, MaxPolled) :
        /\ new # <<>>
        /\ \A i, j \in DOMAIN new : i # j => new[i] # new[j] }

Cutoffs == 1..MaxTranscripts

\* the outcome of an external call: it returned (ok), or it failed
Outcome(ok) ==
    /\ ok \/ faults < MaxFaults
    /\ faults' = (IF ok THEN faults ELSE faults + 1)

MinerNext ==
    \/ \E stored \in SUBSET {1}, snap \in MinerSnaps, ok \in BOOLEAN :
          Outcome(ok) /\ LoadFromNotion(stored, snap, ok)
    \/ \E new \in NewTranscripts :
          \E lens \in [DOMAIN new -> {0, MinContentLen + 1}], pages \in [DOMAIN new -> BOOLEAN] :
             Outcome(\A i \in DOMAIN new : pages[i]) /\ PollDeliver(new, lens, pages)
    \/ \E ret \in Returned, ok \in BOOLEAN :
          /\ Len(ideas) + Len(ret) <= MaxIdeas
          /\ Outcome(ok) /\ DrainExtracted(ret, ok)
    \/ \E ok \in BOOLEAN : Outcome(ok) /\ DrainSaved(ok)
    \/ \E cutoff \in Cutoffs :
          /\ log.inbound < MinerInbound
          /\ OnMessage(TextMine, NoThread, cutoff)
          /\ UNCHANGED faults
    \/ \E n \in TaskSlots, ok \in BOOLEAN : Outcome(ok) /\ MineSaid(n, ok)
    \/ \E n \in MineSlots, len \in {MinContentLen, TruncateLen + 1}, ok \in BOOLEAN :
          Outcome(ok) /\ MineLoaded(n, len, ok)
    \/ \E n \in MineSlots, ret \in Returned, ok \in BOOLEAN :
          /\ Len(ideas) + Len(ret) <= MaxIdeas
          /\ Outcome(ok) /\ MineExtracted(n, ret, ok)
    \/ \E n \in MineSlots, ok \in BOOLEAN : Outcome(ok) /\ MineSaved(n, ok)

SpecMiner == Init /\ [][MinerNext]_vars

-----------------------------------------------------------------------------
(* Properties of the registry and of mining, under SpecMiner *)

\* C4: the number of ideas the drain has recorded in the registry never
\* exceeds the number of distinct normalized hooks the drafting service has
\* returned to the drain.
C4_DrainRecordsOnlyNewHooks ==
    log.drainRecorded <= Cardinality(log.drainHooks)

\* C5: no two distinct ideas of the registry have the same normalized hook.
C5_RegistryHooksUnique ==
    \A i, j \in DOMAIN ideas :
        i # j => normalizeHook(ideas[i].hook) # normalizeHook(ideas[j].hook)

\* C6: for every idea recorded in the registry with hook H1 and every hook H2
\* with the same normalization, isDuplicate(H2) is true.
C6_RecordedHookIsDuplicate ==
    \A i \in DOMAIN ideas : \A H2 \in HookSamples :
        normalizeHook(H2) = normalizeHook(ideas[i].hook) => isDuplicate(H2)

\* C7: no submission of a mineFromTranscripts call to the drafting service
\* contains a transcript that was in the mined set when the call was made; and
\* a call whose transcripts were all mined already returns the empty result
\* at once, without any external call.
C7_MinedNeverResubmitted ==
    /\ \A n \in MineSlots :
          mineTasks[n].pc = "brain" =>
             SeqToSet(MineBatch(mineTasks[n].wc, mineTasks[n].i)) \cap mineTasks[n].atInvoke = {}
    /\ SeqToSet(log.mineCall.input) \subseteq log.mineCall.atInvoke =>
          ~log.mineCall.suspended /\ log.mineCall.all = <<>>

\* after a call that returned ideas, a call given a mined and an unmined
\* transcript submits its batch
C7_Witness ==
    \E n \in MineSlots :
        /\ mineTasks[n].pc = "brain"
        /\ SeqToSet(mineTasks[n].input) \cap mineTasks[n].atInvoke # {}
        /\ MineBatch(mineTasks[n].wc, mineTasks[n].i) # <<>>
        /\ lastShownIdeas # <<>>

-----------------------------------------------------------------------------
(* SpecBot: interviews started by the content cycle and by commands, replies *)
(* and `stop`                                                                *)

Text1 == <<"1">>
Text2 == <<"*", "2", "*">>
TextStop == <<"S", "t", "o", "p", "!">>
TextDone == <<"d", "o", "n", "e">>
TextReply == <<"O", "k", ".">>

BotTexts == {Text1, Text2, TextStop, TextDone, TextReply}

\* the record store at startup: two ideas, not yet used
BotSnap ==
    << [hook |-> HookGo1, src |-> {}, status |-> "extracted", format |-> "linkedin_post"],
       [hook |-> HookNo, src |-> {}, status |-> "extracted", format |-> "newsletter"] >>

\* where a message can be written: top level, the thread of a session's
\* opener, another thread
Threads == {NoThread, OtherThread} \cup DOMAIN activeSessions

ReplyNext ==
    \/ \E n \in TaskSlots, ok \in BOOLEAN : Outcome(ok) /\ PingPosted(n, ok)
    \/ \E n \in TaskSlots, answer \in {"yes", "no", "throw"} :
          Outcome(answer # "throw") /\ ReplyJudged(n, answer)
    \/ \E n \in TaskSlots, ok \in BOOLEAN : Outcome(ok) /\ ReplySaidEnough(n, ok)
    \/ \E n \in TaskSlots, ok \in BOOLEAN : Outcome(ok) /\ ReplyDrafted(n, ok)
    \/ \E n \in TaskSlots, ok \in BOOLEAN : Outcome(ok) /\ ReplyDraftSaved(n, ok)
    \/ \E n \in TaskSlots, ok \in BOOLEAN : Outcome(ok) /\ ReplyNotified(n, ok)
    \/ \E n \in TaskSlots, ok \in BOOLEAN : Outcome(ok) /\ ReplyFollowedUp(n, ok)

BotNext ==
    \/ LoadFromNotion({}, BotSnap, TRUE) /\ UNCHANGED faults
    \/ \E text \in BotTexts, thread \in Threads :
          /\ log.inbound < BotInbound
          /\ thread \in DOMAIN activeSessions => text = TextReply
          /\ OnMessage(text, thread, 1)
          /\ UNCHANGED faults
    \/ log.cycles < MaxCycles /\ CycleFire /\ UNCHANGED faults
    \/ \E n \in TaskSlots : CyclePolled(n, 1) /\ UNCHANGED faults
    \/ ReplyNext

SpecBot == Init /\ [][BotNext]_vars

-----------------------------------------------------------------------------
(* SpecDrafts: interviews up to the delivered draft, the draft's buttons and *)
(* rework feedback                                                           *)

DraftTexts == {Text1, Text2, TextReply, TextStop}

\* the drafts whose buttons are in the chat: those delivered by this process,
\* and one delivered before its start
Buttons == { pendingDrafts[i].id : i \in DOMAIN pendingDrafts } \cup {StaleDraftId}

ReworkNext ==
    \/ \E n \in TaskSlots, ok \in BOOLEAN : Outcome(ok) /\ ReworkSaid(n, ok)
    \/ \E n \in TaskSlots, ok \in BOOLEAN : Outcome(ok) /\ ReworkDone(n, ok)
    \/ \E n \in TaskSlots, ok \in BOOLEAN : Outcome(ok) /\ ReworkSaved(n, ok)
    \/ \E n \in TaskSlots, ok \in BOOLEAN : Outcome(ok) /\ ReworkNotified(n, ok)

\* interviews started or about to start
Started == Len(activeSessions) + Cardinality({ n \in TaskSlots : tasks[n].kind = "ping" })

DraftsNext ==
    \/ LoadFromNotion({}, BotSnap, TRUE) /\ UNCHANGED faults
    \/ \E text \in DraftTexts :
          /\ log.inbound < DraftInbound
          /\ text \in {Text1, Text2} => Started < DraftSessions
          /\ OnMessage(text, NoThread, 1)
          /\ UNCHANGED faults
    \/ \E draftId \in Buttons :
          /\ log.inbound < DraftInbound
          /\ log.reworkClicks < MaxReworks
          /\ OnRework(draftId)
          /\ UNCHANGED faults
    \/ ReplyNext
    \/ ReworkNext

SpecDrafts == Init /\ [][DraftsNext]_vars

-----------------------------------------------------------------------------
(* SpecInterview: one interview, its replies handled one at a time *)

Idle == \A n \in TaskSlots : tasks[n].kind = "none"

InterviewNext ==
    \/ LoadFromNotion({}, BotSnap, TRUE) /\ UNCHANGED faults
    \/ /\ log.inbound < InterviewInbound
       /\ Started = 0
       /\ OnMessage(Text1, NoThread, 1)
       /\ UNCHANGED faults
    \/ /\ log.inbound < InterviewInbound
       /\ Idle
       /\ OnMessage(TextReply, NoThread, 1)
       /\ UNCHANGED faults
    \/ ReplyNext

SpecInterview == Init /\ [][InterviewNext]_vars

-----------------------------------------------------------------------------
(* SpecStop: interviews, `stop` / `done`, and a pending rework *)

StopNext ==
    \/ LoadFromNotion({}, BotSnap, TRUE) /\ UNCHANGED faults
    \/ \E text \in BotTexts :
          /\ log.inbound < StopInbound
          /\ text \in {Text1, Text2} => Started < StopSessions
          /\ OnMessage(text, NoThread, 1)
          /\ UNCHANGED faults
    \/ \E draftId \in Buttons :
          /\ log.inbound < StopInbound
          /\ OnRework(draftId)
          /\ UNCHANGED faults
    \/ ReplyNext

SpecStop == Init /\ [][StopNext]_vars

-----------------------------------------------------------------------------
(* Properties of sessions, under SpecBot *)

IsActive(s) == activeSessions[s].status = "active"

\* C1: for every idea at most one session is active.
C1_OneActiveSessionPerIdea ==
    \A s, t \in DOMAIN activeSessions :
        (s # t /\ IsActive(s) /\ IsActive(t)) =>
            activeSessions[s].ideaId # activeSessions[t].ideaId

\* C2: a session that is completed or abandoned keeps its status in every
\* step.
C2_TerminalStatusNeverChanges ==
    [][\A s \in DOMAIN activeSessions :
          activeSessions[s].status \in {"completed", "abandoned"} =>
             activeSessions'[s].status = activeSessions[s].status]_vars

-----------------------------------------------------------------------------
(* Properties of `stop` / `done`, under SpecStop *)

\* a step in which a message is dispatched as the command `stop` / `done`
StopStep == log'.inbound = log.inbound + 1 /\ log'.last.to = "stop"

\* what a stop step does to the sessions and the ideas
StopEffect ==
    LET latest == getLatestActiveSession
    IN  /\ DOMAIN activeSessions' = DOMAIN activeSessions
        /\ \A s \in DOMAIN activeSessions :
              s # latest => activeSessions'[s] = activeSessions[s]
        /\ DOMAIN ideas' = DOMAIN ideas
        /\ \A i \in DOMAIN ideas : ideas'[i].status = ideas[i].status
        /\ latest # 0 =>
              /\ IsActive(latest)
              /\ \A s \in DOMAIN activeSessions :
                    IsActive(s) => activeSessions[s].startedAt <= activeSessions[latest].startedAt
              /\ activeSessions'[latest] = [activeSessions[latest] EXCEPT !.status = "abandoned"]

\* C3 as stated: a stop step abandons the most recently started active
\* session and changes no other session and no idea's status; with no active
\* session it changes nothing.
C3_StopChangesNothingElse ==
    [][StopStep =>
          /\ StopEffect
          /\ getLatestActiveSession = 0 =>
                UNCHANGED <<transcripts, minerVars, activeSessions, pendingDrafts,
                            lastShownIdeas, tasks, pendingRework>>]_vars

\* C3, amended: a stop step abandons the most recently started active session
\* and changes no other session and no idea's status; with no active session
\* it changes nothing but the pending rework, which it clears.
C3_StopAbandonsLatestOnly ==
    [][StopStep =>
          /\ StopEffect
          /\ pendingRework' = NoRework
          /\ getLatestActiveSession = 0 =>
                UNCHANGED <<transcripts, minerVars, activeSessions, pendingDrafts,
                            lastShownIdeas, tasks>>]_vars

\* after a stop: the later of two sessions for different ideas is abandoned,
\* the earlier is still active
C3_Witness ==
    /\ log.last.to = "stop"
    /\ \E s, t \in DOMAIN activeSessions :
          /\ activeSessions[s].startedAt < activeSessions[t].startedAt
          /\ activeSessions[s].ideaId # activeSessions[t].ideaId
          /\ IsActive(s)
          /\ activeSessions[t].status = "abandoned"

-----------------------------------------------------------------------------
(* Properties of the interview's cap, under SpecInterview *)

ReplyInFlight(s) == \E n \in TaskSlots : tasks[n].kind = "reply" /\ tasks[n].s = s

DraftOf(s) == \E i \in DOMAIN log.drafts : log.drafts[i].s = s

NoFollowUpPastCap ==
    \A s \in DOMAIN activeSessions : \A p \in DOMAIN activeSessions[s].messages :
        p > MaxMessages => activeSessions[s].messages[p].role # "agent"

-----------------------------------------------------------------------------
(* Properties of drafts and rework, under SpecDrafts *)

\* C8: the drafts created for an idea carry, in the order of their creation,
\* the versions 1, 2, 3, ...
C8_VersionsGapFree ==
    \A i \in DOMAIN log.drafts :
        log.drafts[i].version =
            Cardinality({ j \in 1..i : log.drafts[j].ideaId = log.drafts[i].ideaId })

ReworkInFlight == \E n \in TaskSlots : tasks[n].kind = "rework"

-----------------------------------------------------------------------------
(* Mining on demand over more transcripts than one batch holds: the startup  *)
(* poll delivers transcripts with content, `mine` mines a recent window      *)

\* the transcripts of the startup poll, in the provider's order
BatchPolls == { [i \in 1..MaxBatch |-> i] }

\* the dates 90 days back: windows of all, all but one, all but two and one
\* of the transcripts
BatchCutoffs == {1, 2, 3, MaxBatch}

BatchNext ==
    \/ LoadFromNotion({}, <<>>, TRUE) /\ UNCHANGED faults
    \/ \E new \in BatchPolls, len \in {TruncateLen + 1} :
          /\ DOMAIN transcripts = {}
          /\ PollDeliver(new, [i \in DOMAIN new |-> len], [i \in DOMAIN new |-> TRUE])
          /\ UNCHANGED faults
    \/ \E ret \in Returned, ok \in BOOLEAN :
          /\ Len(ideas) + Len(ret) <= MaxIdeas
          /\ Outcome(ok) /\ DrainExtracted(ret, ok)
    \/ \E ok \in BOOLEAN : Outcome(ok) /\ DrainSaved(ok)
    \/ \E cutoff \in BatchCutoffs :
          /\ log.inbound < MinerInbound
          /\ OnMessage(TextMine, NoThread, cutoff)
          /\ UNCHANGED faults
    \/ \E n \in TaskSlots, ok \in BOOLEAN : Outcome(ok) /\ MineSaid(n, ok)
    \/ \E n \in MineSlots, ret \in Returned, ok \in BOOLEAN :
          /\ Len(ideas) + Len(ret) <= MaxIdeas
          /\ Outcome(ok) /\ MineExtracted(n, ret, ok)
    \/ \E n \in MineSlots, ok \in BOOLEAN : Outcome(ok) /\ MineSaved(n, ok)

SpecBatch == Init /\ [][BatchNext]_vars

\* the j-th run of at most MineBatchSize consecutive elements of list
Chunk(list, j) ==
    SubSeq(list, (j - 1) * MineBatchSize + 1,
           IF j * MineBatchSize < Len(list) THEN j * MineBatchSize ELSE Len(list))

Ceil(n, d) == (n + d - 1) \div d

\* the extraction calls a mining call has made, the one that returns in this
\* step included
CallsMade(t) == IF t.pc = "brain" THEN Append(t.sent, MineBatch(t.wc, t.i)) ELSE t.sent

\* C11: a mining call whose n unmined transcripts all had content when it was
\* invoked hands the drafting service the consecutive runs of at most 10 of
\* them, in order, and has made exactly ceil(n/10) extraction calls when it
\* returns, whether or not one of them failed.
C11_CeilBatchesOfTen ==
    [][\A m \in MineSlots :
          LET t == mineTasks[m]
          IN  (t.pc # "free" /\ SeqToSet(t.unmined) = t.ready) =>
                 /\ \A j \in DOMAIN CallsMade(t) :
                       /\ CallsMade(t)[j] = Chunk(t.unmined, j)
                       /\ Len(CallsMade(t)[j]) \in 1..MineBatchSize
                 /\ mineTasks'[m].pc = "free" =>
                       Len(CallsMade(t)) = Ceil(Cardinality(t.ready), MineBatchSize)]_vars

\* 12 transcripts: the first batch of 10 was submitted and its call failed,
\* the second batch, of 2, is with the drafting service
C11_Witness ==
    \E m \in MineSlots :
        /\ mineTasks[m].pc = "brain"
        /\ Cardinality(mineTasks[m].ready) = 12
        /\ Len(mineTasks[m].sent) = 1
        /\ Len(mineTasks[m].sent[1]) = 10
        /\ Len(MineBatch(mineTasks[m].wc, mineTasks[m].i)) = 2
        /\ faults = 1
        /\ ideas = <<>>

-----------------------------------------------------------------------------
(* SpecChat: the routing of inbound messages.  The user runs one interview   *)
(* to its draft, one message at a time, and then writes commands, numbers,   *)
(* replies and clicks `rework`.                                              *)

\* what the user writes at top level: `1`, `2`, a reply, `stop`, `ideas`, `draft 3`,
\* `3`, and `draft <id>` with the identifier of the second idea of BotSnap
ChatTexts ==
    {Text1, Text2, TextReply, TextStop,
     <<"i", "d", "e", "a", "s">>,
     <<"d", "r", "a", "f", "t", " ", "3">>,
     <<"3">>,
     <<"d", "r", "a", "f", "t", " ">> \o NotionIdeaIds[2]}

\* what the user writes in the thread of a session's opener
ThreadTexts == {TextStop}

ChatNext ==
    \/ LoadFromNotion({}, BotSnap, TRUE) /\ UNCHANGED faults
    \/ \E text \in ChatTexts :
          /\ Idle
          /\ log.inbound < ChatInbound
          /\ pendingDrafts = <<>> => text \in (IF Started = 0 THEN {Text1, Text2} ELSE {TextReply})
          /\ text = Text1 => Started < ChatSessions
          /\ text = Text2 => Started = 0
          /\ OnMessage(text, NoThread, 1)
          /\ UNCHANGED faults
    \/ \E text \in ThreadTexts, thread \in DOMAIN activeSessions :
          /\ Idle
          /\ log.inbound < ChatInbound
          /\ pendingDrafts # <<>>
          /\ OnMessage(text, thread, 1)
          /\ UNCHANGED faults
    \/ \E draftId \in Buttons :
          /\ Idle
          /\ log.inbound < ChatInbound
          /\ log.reworkClicks < MaxReworks
          /\ OnRework(draftId)
          /\ UNCHANGED faults
    \/ \E draftId \in Buttons :
          /\ Idle
          /\ log.inbound < ChatInbound
          /\ OnApprove(draftId)
          /\ UNCHANGED faults
    \/ \E draftId \in Buttons :
          /\ Idle
          /\ log.inbound < ChatInbound
          /\ OnSyndicate(draftId)
          /\ UNCHANGED faults
    \/ ReplyNext
    \/ ReworkNext

SpecChat == Init /\ [][ChatNext]_vars

\* a step in which a message reading `draft N` or N arrives, N beyond the end
\* of the non-empty list of the ideas last shown
OverflowStep ==
    /\ log'.inbound = log.inbound + 1
    /\ lastShownIdeas # <<>>
    /\ log'.last.num > Len(lastShownIdeas)

\* no session is created, no idea changes, no handler is left to call a service
NothingStarted ==
    /\ activeSessions' = activeSessions
    /\ ideas' = ideas
    /\ tasks' = tasks
    /\ pendingDrafts' = pendingDrafts

-----------------------------------------------------------------------------
(* SpecLoad: the load of the registry at startup                             *)

\* what the record store returns: up to two ideas, each with no, one or two
\* source transcripts (one of them unknown to the transcript store)
LoadSnaps ==
    { snap \in SeqsUpTo([hook : {HookGo1, HookNo}, src : {{}, {1}, {2, MaxStored + 1}},
                         status : {"extracted"}, format : {"linkedin_post"}], 2) :
        \A i, j \in DOMAIN snap : i # j => snap[i].hook # snap[j].hook }

LoadNext ==
    \E stored \in SUBSET (1..MaxStored), snap \in LoadSnaps, ok \in BOOLEAN :
        Outcome(ok) /\ LoadFromNotion(stored, snap, ok)

SpecLoad == Init /\ [][LoadNext]_vars

\* C13: after a load that found ideas, if one of them has no source
\* transcripts every transcript of the store is marked mined; if each has
\* some, exactly the union of the ideas' source transcripts is marked mined.
C13_LegacyMarksAllMined ==
    (loaded /\ ideas # <<>>) =>
        IF \E i \in DOMAIN ideas : ideas[i].src = {}
        THEN DOMAIN transcripts \subseteq minedTranscriptIds
        ELSE minedTranscriptIds = UNION { ideas[i].src : i \in DOMAIN ideas }

\* one legacy idea and one idea with a source transcript, 5 known transcripts:
\* all 5 are marked mined
C13_Witness ==
    /\ loaded
    /\ Len(ideas) = 2
    /\ ideas[1].src = {}
    /\ ideas[2].src = {1}
    /\ DOMAIN transcripts = 1..5
    /\ Cardinality(minedTranscriptIds) = 5

-----------------------------------------------------------------------------
(* Properties of a session's messages, under SpecBot *)

\* C14: in every step every session is kept and its previous messages are a
\* prefix of its new messages.
C14_MessagesAppendOnly ==
    [][\A s \in DOMAIN activeSessions :
          /\ s \in DOMAIN activeSessions'
          /\ Len(activeSessions'[s].messages) >= Len(activeSessions[s].messages)
          /\ SubSeq(activeSessions'[s].messages, 1, Len(activeSessions[s].messages))
                = activeSessions[s].messages]_vars

\* two replies were recorded before the follow-up question to the first
C14_Witness ==
    \E s \in DOMAIN activeSessions :
        /\ Len(activeSessions[s].messages) = 4
        /\ activeSessions[s].messages[2].role = "user"
        /\ activeSessions[s].messages[3].role = "user"
        /\ activeSessions[s].messages[4].role = "agent"
        /\ ReplyInFlight(s)

-----------------------------------------------------------------------------
(* Properties of the draft cache, under SpecDrafts *)

\* C15: no step changes or removes a draft of the cache; the step that ends a
\* rework handler without a failed post adds one entry, under a new
\* identifier, with the version of the draft the rework named plus 1 and with
\* its format and idea.
C15_ReworkKeepsOriginal ==
    [][/\ \A i \in DOMAIN pendingDrafts :
             i \in DOMAIN pendingDrafts' /\ pendingDrafts'[i] = pendingDrafts[i]
       /\ \A n \in TaskSlots :
             (/\ tasks[n].kind = "rework" /\ tasks[n].pc = "notify"
              /\ tasks'[n].kind # "rework"
              /\ faults' = faults) =>
                LET orig == MapGet(pendingDrafts, tasks[n].rework.draftId)
                    new == pendingDrafts'[Len(pendingDrafts')]
                IN  /\ Len(pendingDrafts') = Len(pendingDrafts) + 1
                    /\ \A i \in DOMAIN pendingDrafts : pendingDrafts[i].id # new.id
                    /\ new.version = orig.version + 1
                    /\ new.format = orig.format
                    /\ new.ideaId = orig.ideaId
                    /\ new.body # orig.body]_vars

\* the cache holds a draft and its reworked version
C15_Witness ==
    /\ Len(pendingDrafts) = 2
    /\ pendingDrafts[1].version = 1
    /\ pendingDrafts[1].status = "draft"
    /\ pendingDrafts[2].version = 2
    /\ pendingDrafts[2].ideaId = pendingDrafts[1].ideaId
    /\ pendingDrafts[2].id # pendingDrafts[1].id
    /\ \E i \in DOMAIN log.drafts : /\ log.drafts[i].id = pendingDrafts[2].id
                                    /\ log.drafts[i].of = pendingDrafts[1].id

-----------------------------------------------------------------------------
(* Properties of `draft <id>`, under SpecChat *)

\* C16: when a message `draft <id>` that spells out the identifier of an idea
\* of the registry is dispatched as a command, its handler goes on to open an
\* interview for that idea.
C16_DraftByIdStartsInterview ==
    [][(/\ log'.inbound = log.inbound + 1
        /\ log'.last.id # NoId
        /\ log'.last.to = "draft") =>
          /\ log'.last.reply = "ping"
          /\ \E n \in TaskSlots : tasks[n] = NoTask /\ tasks'[n] = PingTask(log'.last.id)]_vars

-----------------------------------------------------------------------------
(* Properties of the buttons `approve` and `syndicate`, under SpecChat *)

\* a click of the button `kind`
ClickStep(kind) == log'.inbound = log.inbound + 1 /\ log'.last.to = kind

\* C17: a click of `approve` for a cached draft sets that draft's status to
\* `approved` and changes nothing else, so nothing at all when the draft was
\* approved before; for a draft that is not cached it changes nothing and the
\* answer is that the draft was not found.
C17_ApproveIdempotent ==
    [][ClickStep("approve") =>
          /\ UNCHANGED <<transcripts, minerVars, activeSessions, lastShownIdeas,
                         pendingRework, tasks>>
          /\ IF MapHas(pendingDrafts, log'.last.id)
             THEN /\ log'.last.reply = "approved"
                  /\ pendingDrafts' =
                        [pendingDrafts EXCEPT
                           ![MapIndex(pendingDrafts, log'.last.id)].status = "approved"]
                  /\ StatusOf(log'.last.id) = "approved" => pendingDrafts' = pendingDrafts
             ELSE /\ log'.last.reply = "notfound"
                  /\ pendingDrafts' = pendingDrafts]_vars

\* a draft that was approved has been approved a second time
C17_Witness ==
    /\ log.last.to = "approve"
    /\ log.last.was = "approved"
    /\ StatusOf(log.last.id) = "approved"

\* C18: a click of `syndicate` asks for the thread variant exactly when the
\* draft is cached and a LinkedIn post, else it answers with the guidance
\* message; in both cases no draft, session or idea changes.
C18_SyndicateOnlyLinkedIn ==
    [][ClickStep("syndicate") =>
          /\ log'.last.reply = "thread" <=>
                /\ MapHas(pendingDrafts, log'.last.id)
                /\ MapGet(pendingDrafts, log'.last.id).format = "linkedin_post"
          /\ log'.last.reply # "thread" =>
                /\ log'.last.reply = "guidance"
                /\ log'.threads = log.threads
          /\ UNCHANGED <<transcripts, minerVars, activeSessions, lastShownIdeas,
                         pendingRework, pendingDrafts, tasks>>]_vars

\* `syndicate` was clicked for a cached newsletter draft: guidance
C18_Witness ==
    /\ log.last.to = "syndicate"
    /\ log.last.reply = "guidance"
    /\ MapHas(pendingDrafts, log.last.id)
    /\ MapGet(pendingDrafts, log.last.id).format = "newsletter"
    /\ log.threads = {}

-----------------------------------------------------------------------------
(* Properties of the routing of a message (lines 311-360), under SpecChat *)

\* a step in which a message arrives (not a click of a button)
MessageStep ==
    /\ log'.inbound = log.inbound + 1
    /\ log'.last.to \notin {"approve", "click", "syndicate"}

\* the step hands the message to session s as an interview reply: the message
\* is appended to the session, which stays as it was otherwise, and neither
\* the pending rework nor any other session changes
RepliedTo(s) ==
    /\ log'.last.to = "reply"
    /\ log'.last.s = s
    /\ Len(activeSessions'[s].messages) = Len(activeSessions[s].messages) + 1
    /\ activeSessions'[s].messages[Len(activeSessions[s].messages) + 1].role = "user"
    /\ activeSessions'[s].status = activeSessions[s].status
    /\ \A k \in DOMAIN activeSessions : k # s => activeSessions'[k] = activeSessions[k]
    /\ pendingRework' = pendingRework
    /\ ideas' = ideas

\* C19: a message in the thread of an active session is handled as an
\* interview reply to that session, whatever its text and whether or not a
\* rework is pending; it is not dispatched as a command or as rework feedback.
C19_ThreadReplyFirst ==
    [][(/\ MessageStep
        /\ log'.last.thread \in DOMAIN activeSessions
        /\ IsActive(log'.last.thread))
          => RepliedTo(log'.last.thread)]_vars

\* `stop` was sent in the thread of an active session while a rework was
\* pending, and the session is still active
C19_Witness ==
    /\ log.last.said = CmdStop
    /\ log.last.thread \in DOMAIN activeSessions
    /\ log.last.to = "reply"
    /\ log.last.s = log.last.thread
    /\ IsActive(log.last.thread)
    /\ pendingRework # NoRework

\* the command tokens of the convenience path: the listed words and phrases
\* and the numbers of one or two digits
IsToken(said) == said \in ReplyPassThrough \/ IsShortNumber(said)

\* s is active and no active session was started after it
IsLatestActive(s) ==
    /\ s \in DOMAIN activeSessions
    /\ IsActive(s)
    /\ \A k \in DOMAIN activeSessions :
          IsActive(k) => activeSessions[k].startedAt <= activeSessions[s].startedAt

\* C20: a message outside every thread that is not a command token goes, when
\* a session is active, to the active session started last as an interview
\* reply, whether or not a rework is pending; a command token outside every
\* thread never goes to a session.
C20_LatestSessionFirst ==
    [][(MessageStep /\ log'.last.thread = NoThread) =>
          IF IsToken(log'.last.said)
          THEN /\ log'.last.to # "reply"
               /\ \A k \in DOMAIN activeSessions :
                     activeSessions'[k].messages = activeSessions[k].messages
          ELSE \A s \in DOMAIN activeSessions : IsLatestActive(s) => RepliedTo(s)]_vars

\* with a rework pending and two sessions active, a message outside every
\* thread went to the one started last
C20_Witness ==
    /\ log.last.thread = NoThread
    /\ log.last.to = "reply"
    /\ ~IsToken(log.last.said)
    /\ pendingRework # NoRework
    /\ log.last.s \in DOMAIN activeSessions
    /\ IsActive(log.last.s)
    /\ \E k \in DOMAIN activeSessions :
          IsActive(k) /\ activeSessions[k].startedAt < activeSessions[log.last.s].startedAt

\* C21: with a rework pending, a message that no active session takes and
\* that is a command token (a listed word or phrase, or a number of one or two
\* digits) clears the pending rework and is dispatched as a command; it is not
\* handled as the rework feedback.
C21_CommandsClearRework ==
    [][(/\ MessageStep
        /\ pendingRework # NoRework
        /\ log'.last.to # "reply"
        /\ IsToken(log'.last.said))
          => (pendingRework' = NoRework /\ log'.last.to \notin {"rework", "cancel"})]_vars

\* the commands of the chat: the command tokens and `draft <idea>`
IsCommand(said) == IsToken(said) \/ StartsWith(said, DraftPrefix)

\* C22: with no session active and no rework pending, a message that is not a
\* command is acknowledged and dropped: no idea, session, draft, pending
\* rework, hook or mined transcript changes and no handler is left running.
C22_PassiveTextDiscarded ==
    [][(/\ MessageStep
        /\ \A s \in DOMAIN activeSessions : ~IsActive(s)
        /\ pendingRework = NoRework
        /\ ~IsCommand(log'.last.said))
          => /\ log'.last.to = "passive"
             /\ UNCHANGED <<ideas, activeSessions, pendingDrafts, pendingRework, knownHooks,
                            minedTranscriptIds, transcripts, lastShownIdeas, tasks>>]_vars

\* a text that is no command arrived while ideas were open, a draft was
\* cached, no session was active and no rework was pending
C22_Witness ==
    /\ log.last.to = "passive"
    /\ ~IsCommand(log.last.said)
    /\ \A s \in DOMAIN activeSessions : ~IsActive(s)
    /\ pendingRework = NoRework
    /\ pendingDrafts # <<>>
    /\ getUnprocessedIdeas # <<>>
    /\ lastShownIdeas = <<>>

\* C23: a session has at most one reply in flight: a reply that arrives for a
\* session while the handler of an earlier reply to it is suspended in an
\* external call is neither appended to the session nor evaluated.
C23_OneReplyInFlight ==
    [][(/\ MessageStep
        /\ log'.last.to = "reply"
        /\ ReplyInFlight(log'.last.s))
          => /\ activeSessions'[log'.last.s].messages = activeSessions[log'.last.s].messages
             /\ tasks' = tasks]_vars

\* session s was abandoned
IsAbandoned(s) == activeSessions[s].status = "abandoned"

\* a step in which the handler of a reply to session s returns from its
\* call of generateFollowUp and of say without a failure
FollowUpReturns(s) ==
    \E n \in TaskSlots :
       /\ tasks[n].kind = "reply" /\ tasks[n].pc = "followup" /\ tasks[n].s = s
       /\ tasks'[n].kind = "none"
       /\ faults' = faults

\* C24: no inbound message, in a thread or not, is routed to an abandoned
\* session or appended to it; a stop leaves the handlers that are suspended in
\* an external call as they are, and the follow-up question of such a handler
\* is still appended to the abandoned session and posted.
C24_AbandonedGetsNoMessage ==
    [][/\ MessageStep =>
            \A s \in DOMAIN activeSessions :
               IsAbandoned(s) =>
                  /\ activeSessions'[s] = activeSessions[s]
                  /\ ~(log'.last.to = "reply" /\ log'.last.s = s)
       /\ StopStep => tasks' = tasks
       /\ \A s \in DOMAIN activeSessions :
             (IsAbandoned(s) /\ FollowUpReturns(s)) =>
                /\ activeSessions'[s].messages =
                      Append(activeSessions[s].messages, [role |-> "agent", text |-> AgentText])
                /\ activeSessions'[s].status = "abandoned"]_vars

\* a message was sent to the thread of an abandoned session, which has a
\* reply still in flight, and was not taken as a reply
C24_Witness ==
    /\ log.last.thread \in DOMAIN activeSessions
    /\ IsAbandoned(log.last.thread)
    /\ ReplyInFlight(log.last.thread)
    /\ log.last.to = "passive"

-----------------------------------------------------------------------------
(* The mining queue alone: polls that deliver the transcripts 1, 2, ... in
   this order, a few at a time, and the drain (SpecQueue) *)

\* the transcripts a poll of SpecQueue delivers: the next m of the provider
QueuePolls ==
    LET k == Cardinality(DOMAIN transcripts)
    IN  { [i \in 1..m |-> k + i] : m \in 1..(MaxQueued - k) }

QueueNext ==
    \/ LoadFromNotion({}, <<>>, TRUE) /\ UNCHANGED faults
    \/ \E new \in QueuePolls :
          /\ PollDeliver(new, [i \in DOMAIN new |-> TruncateLen + 1], [i \in DOMAIN new |-> TRUE])
          /\ UNCHANGED faults
    \/ \E ret \in Returned, ok \in BOOLEAN :
          /\ Len(ideas) + Len(ret) <= MaxIdeas
          /\ Outcome(ok) /\ DrainExtracted(ret, ok)
    \/ \E ok \in BOOLEAN : Outcome(ok) /\ DrainSaved(ok)

SpecQueue == Init /\ [][QueueNext]_vars

\* a step in which transcripts are enqueued
EnqueueStep == DOMAIN transcripts' # DOMAIN transcripts

\* the transcripts a step enqueues, in the order of their enqueue
Enqueued ==
    LET k == Cardinality(DOMAIN transcripts)
    IN  [i \in 1..(Cardinality(DOMAIN transcripts') - k) |-> k + i]

\* C25: the flag `processing` is set exactly while a drain is suspended in an
\* external call, and an enqueue that arrives then appends to the pending
\* list and leaves the drain as it is: no batch is taken, no call is made.
C25_OneDrainAtATime ==
    /\ [](processing <=> drain.pc # "idle")
    /\ [][(EnqueueStep /\ processing) =>
             /\ pendingTranscripts' = pendingTranscripts \o Enqueued
             /\ drain' = drain
             /\ processing'
             /\ log'.submitted = log.submitted]_vars

\* two transcripts were enqueued while the drain awaited the drafting
\* service for a batch of one
C25_Witness ==
    /\ processing
    /\ drain.pc = "brain"
    /\ Len(drain.batch) = 1
    /\ Len(pendingTranscripts) = 2
    /\ Len(log.submitted) = 1

\* the batches of `batches` one after the other
RECURSIVE Flatten(_)
Flatten(batches) ==
    IF batches = <<>> THEN <<>> ELSE Head(batches) \o Flatten(Tail(batches))

\* C27: every batch of the drain holds between one and 5 transcripts, the
\* oldest of the pending list when it is taken (5 of them, or all when fewer
\* are pending; an enqueue that finds no drain in progress has its transcript
\* taken at once, before the next enqueue of the same poll); the batches one
\* after the other, followed by the pending list, are the transcripts in the
\* order of their enqueue, each once.
C27_BatchesInEnqueueOrder ==
    /\ [](/\ \A b \in DOMAIN log.submitted :
               Len(log.submitted[b]) \in 1..DrainBatchSize
          /\ Flatten(log.submitted) \o pendingTranscripts
                = [i \in 1..Cardinality(DOMAIN transcripts) |-> i])
    /\ [][log'.submitted # log.submitted =>
             /\ Len(log'.submitted) = Len(log.submitted) + 1
             /\ SubSeq(log'.submitted, 1, Len(log.submitted)) = log.submitted
             /\ drain'.batch = log'.submitted[Len(log'.submitted)]
             /\ LET pending == IF EnqueueStep
                               THEN pendingTranscripts \o <<Enqueued[1]>>
                               ELSE pendingTranscripts
                IN  /\ drain'.batch = Take(pending, DrainBatchSize)
                    /\ pendingTranscripts' =
                          Drop(pending, DrainBatchSize)
                             \o (IF EnqueueStep THEN Tail(Enqueued) ELSE <<>>)]_vars

\* seven transcripts were enqueued while the first batch was out: the second
\* batch held the next five, the seventh is still pending
C27_Witness ==
    /\ Len(log.submitted) = 2
    /\ Len(log.submitted[1]) = 1
    /\ log.submitted[2] = <<2, 3, 4, 5, 6>>
    /\ pendingTranscripts = <<7>>

\* the call the drain is suspended in returns or fails
DrainReturns ==
    \/ \E ret \in Returned, ok \in BOOLEAN :
          /\ Len(ideas) + Len(ret) <= MaxIdeas
          /\ Outcome(ok) /\ DrainExtracted(ret, ok)
    \/ \E ok \in BOOLEAN : Outcome(ok) /\ DrainSaved(ok)

\* SpecQueue where every call of the drafting service and of the record
\* store eventually returns or fails
SpecQueueLive == SpecQueue /\ WF_vars(DrainReturns)

\* the queue is drained: nothing is pending and no drain is in progress
Drained == pendingTranscripts = <<>> /\ ~processing

\* C26: when every external call returns or fails, the queue is drained
\* again some time after every enqueue; a batch whose extraction fails is
\* followed at once by the batch of what is still pending.
C26_QueueDrains ==
    /\ ~Drained ~> Drained
    /\ [][(/\ drain.pc = "brain"
           /\ faults' = faults + 1
           /\ pendingTranscripts # <<>>)
             => /\ drain'.pc = "brain"
                /\ drain'.batch = Take(pendingTranscripts, DrainBatchSize)]_vars

\* the extraction of the first batch failed and the second batch is out
C26_Witness ==
    /\ faults = 1
    /\ ideas = <<>>
    /\ drain.pc = "brain"
    /\ Len(log.submitted) = 2

-----------------------------------------------------------------------------
(* Properties of mineFromTranscripts, under SpecMiner *)

\* C28: when a call of mineFromTranscripts returns, every transcript of its
\* input that was not mined when it was invoked is mined, whether it was
\* passed to the drafting service or skipped, and whether or not a call
\* failed; a failed load of a transcript's content marks that transcript and
\* leaves the transcripts kept so far as they are.
C28_AttemptedAreMined ==
    /\ [][\A n \in MineSlots :
            (mineTasks[n].pc # "free" /\ mineTasks'[n].pc = "free") =>
               SeqToSet(mineTasks[n].unmined) \subseteq minedTranscriptIds']_vars
    /\ [][(log'.mineCall # log.mineCall /\ ~log'.mineCall.suspended) =>
            SeqToSet(log'.mineCall.input) \subseteq minedTranscriptIds']_vars
    /\ [][\A n \in MineSlots :
            (/\ mineTasks[n].pc = "load"
             /\ mineTasks'[n] # mineTasks[n]
             /\ faults' = faults + 1) =>
               /\ mineTasks[n].unmined[mineTasks[n].k] \in minedTranscriptIds'
               /\ mineTasks'[n].pc # "free" =>
                     SubSeq(mineTasks'[n].wc, 1, Len(mineTasks[n].wc)) = mineTasks[n].wc]_vars

\* a call for two transcripts, none mined before, has returned: the content
\* of the first could not be loaded (it is still empty), both are mined
C28_Witness ==
    /\ \A n \in MineSlots : mineTasks[n].pc = "free"
    /\ Len(log.mineCall.input) = 2
    /\ log.mineCall.atInvoke = {}
    /\ minedTranscriptIds = SeqToSet(log.mineCall.input)
    /\ \E t \in DOMAIN transcripts : transcripts[t].page /\ transcripts[t].len = 0
    /\ faults = 1

-----------------------------------------------------------------------------
(* The two jobs of the scheduler alone: polls and content cycles, with the
   drain and the mining they start and no chat message (SpecCycle) *)

\* the record store at startup: empty, or two ideas not yet processed
CycleSnaps == {<<>>, BotSnap}

CycleNext ==
    \/ \E snap \in CycleSnaps : LoadFromNotion({}, snap, TRUE) /\ UNCHANGED faults
    \/ \E new \in NewTranscripts, len \in {0, MinContentLen + 1} :
          /\ PollDeliver(new, [i \in DOMAIN new |-> len], [i \in DOMAIN new |-> TRUE])
          /\ UNCHANGED faults
    \/ \E owner \in {0} \cup TaskSlots, saved \in SUBSET {1} :
          Outcome(FALSE) /\ PollFailed(owner, saved)
    \/ \E ret \in Returned, ok \in BOOLEAN :
          /\ Len(ideas) + Len(ret) <= MaxIdeas
          /\ Outcome(ok) /\ DrainExtracted(ret, ok)
    \/ \E ok \in BOOLEAN : Outcome(ok) /\ DrainSaved(ok)
    \/ log.cycles < CycleFirings /\ CycleFire /\ UNCHANGED faults
    \/ \E n \in TaskSlots : CyclePolled(n, 1) /\ UNCHANGED faults
    \/ \E n \in MineSlots, len \in {MinContentLen, TruncateLen + 1}, ok \in BOOLEAN :
          Outcome(ok) /\ MineLoaded(n, len, ok)
    \/ \E n \in MineSlots, ret \in Returned, ok \in BOOLEAN :
          /\ Len(ideas) + Len(ret) <= MaxIdeas
          /\ Outcome(ok) /\ MineExtracted(n, ret, ok)
    \/ \E n \in MineSlots, ok \in BOOLEAN : Outcome(ok) /\ MineSaved(n, ok)
    \/ \E n \in TaskSlots, ok \in BOOLEAN : Outcome(ok) /\ PingPosted(n, ok)

SpecCycle == Init /\ [][CycleNext]_vars

\* a step in which a handler catches the failure of an external call
CaughtStep == Len(log'.caught) = Len(log.caught) + 1

\* the failure caught last
LastCaught == log.caught[Len(log.caught)]

\* C29: no failure of an external call inside a poll or a content cycle
\* leaves the job body: each is caught, the slot of a firing whose failure
\* reaches the body's own handler is freed, and the firings that follow run.
C29_FailuresStayInFiring ==
    /\ [](log.escaped = {})
    /\ [][faults' = faults + 1 =>
             (\/ CaughtStep /\ log'.caught[Len(log'.caught)].by # "none"
              \/ drain.pc # "idle" /\ drain' # drain)]_vars
    /\ [][(CaughtStep /\ log'.caught[Len(log'.caught)].site = "sendContentPing") =>
             tasks' = EndTask(log'.caught[Len(log'.caught)].owner)]_vars

\* a firing of the poll job failed before any transcript was queued and any
\* content cycle had fired; a later poll has queued a transcript and a later
\* content cycle has started an interview
C29_Witness ==
    /\ log.caught # <<>>
    /\ LastCaught.site = "pollNewMeetings"
    /\ LastCaught.owner = 0
    /\ LastCaught.cycles = 0
    /\ LastCaught.batches = 0
    /\ log.submitted # <<>>
    /\ activeSessions # <<>>

\* the first idea of the registry with status `extracted`, NoId if none
FirstExtracted ==
    IF \E i \in DOMAIN ideas : ideas[i].status = "extracted"
    THEN ideas[CHOOSE i \in DOMAIN ideas :
                  /\ ideas[i].status = "extracted"
                  /\ \A j \in 1..(i - 1) : ideas[j].status # "extracted"].id
    ELSE NoId

\* the ideas the call of mineFromTranscripts for the firing in slot n has
\* returned so far, the one it is saving included
MinedFor(n) ==
    LET m == CHOOSE k \in MineSlots : mineTasks[k].pc # "free" /\ mineTasks[k].owner = n
    IN  IF mineTasks[m].pc = "save" THEN Append(mineTasks[m].all, mineTasks[m].cur)
        ELSE mineTasks[m].all

\* what a firing does once its poll has returned, once its mining has
\* returned and once the opener of the interview was posted or has failed
CyclePicksOne ==
    /\ \A n \in TaskSlots :
          (tasks[n].kind = "cycle" /\ tasks[n].pc = "poll" /\ tasks'[n] # tasks[n]) =>
             /\ activeSessions' = activeSessions
             /\ IF FirstExtracted # NoId
                THEN tasks'[n] = PingTask(FirstExtracted) /\ mineTasks' = mineTasks
                ELSE IF DOMAIN transcripts = {}
                THEN tasks'[n] = NoTask /\ mineTasks' = mineTasks
                ELSE tasks'[n] \in {NoTask, [tasks[n] EXCEPT !.pc = "mining"]}
    /\ \A n \in TaskSlots :
          (tasks[n].kind = "cycle" /\ tasks[n].pc = "mining" /\ tasks'[n] # tasks[n]) =>
             /\ activeSessions' = activeSessions
             /\ tasks'[n] = IF MinedFor(n) = <<>> THEN NoTask ELSE PingTask(MinedFor(n)[1])
    /\ \A n \in TaskSlots :
          (tasks[n].kind = "ping" /\ tasks'[n] # tasks[n]) =>
             /\ tasks'[n] = NoTask
             /\ \/ activeSessions' = activeSessions
                \/ /\ Len(activeSessions') = Len(activeSessions) + 1
                   /\ SubSeq(activeSessions', 1, Len(activeSessions)) = activeSessions
                   /\ activeSessions'[Len(activeSessions')].ideaId = tasks[n].idea
    /\ (\A n \in TaskSlots : tasks'[n] = tasks[n]) => activeSessions' = activeSessions

\* the interviews started and the firings still running are no more than
\* the firings
OnePerFiring ==
    Len(activeSessions) + Cardinality({ n \in TaskSlots : tasks[n].kind # "none" })
       <= log.cycles

\* C30 as stated: a firing polls first, then starts at most one interview:
\* for the first idea with status `extracted`, else for the first idea that
\* mining the recent transcripts returns, else for none; a failure at any
\* step ends the firing.
C30_FailureEndsFiring ==
    /\ []OnePerFiring
    /\ [][CyclePicksOne]_vars
    /\ [][(CaughtStep /\ log'.caught[Len(log'.caught)].owner # 0) =>
             tasks'[log'.caught[Len(log'.caught)].owner] = NoTask]_vars

\* C30, amended: the same, but only a failure of sendContentPing ends the
\* firing, with no interview started and no second attempt; a failure of the
\* firing's poll is caught inside the poll and the firing goes on as after a
\* poll that found nothing, and a failure inside the mining is caught there
\* and the mining goes on.
C30_OnlyPingFailureEndsFiring ==
    /\ []OnePerFiring
    /\ [][CyclePicksOne]_vars
    /\ [][(CaughtStep /\ log'.caught[Len(log'.caught)].owner # 0) =>
             LET c == log'.caught[Len(log'.caught)]
             IN  /\ c.site = "sendContentPing" =>
                      (tasks'[c.owner] = NoTask /\ activeSessions' = activeSessions)
                 /\ c.site = "pollNewMeetings" => tasks'[c.owner] = tasks[c.owner]
                 /\ c.site \notin {"sendContentPing", "pollNewMeetings"} =>
                      tasks'[c.owner].kind \in {"cycle", "ping", "none"}]_vars

\* the second firing found the first idea in an interview and started one
\* for the second idea; the poll of this firing had failed
C30_Witness ==
    /\ log.cycles = 2
    /\ Len(activeSessions) = 2
    /\ activeSessions[1].ideaId # activeSessions[2].ideaId
    /\ log.caught # <<>>
    /\ LastCaught.site = "pollNewMeetings"
    /\ LastCaught.owner # 0
    /\ LastCaught.cycles = 2

-----------------------------------------------------------------------------
(* Properties of the reply judged to give enough material, under SpecBot *)

\* the step in which the handler of a reply in task n returns normally, none
\* of its external calls having failed
ReplyEndsClean(n) ==
    /\ tasks[n].kind = "reply" /\ tasks[n].pc = "notify"
    /\ tasks[n].draft.page
    /\ tasks'[n].kind = "none"
    /\ faults' = faults

\* C31: when a reply is judged to give enough material and no external call
\* of its handler fails, the handler ends with the session completed, the
\* idea's status draft_ready and a new draft in the pending-draft cache with
\* version 1, the idea's suggested format and the session's idea identifier;
\* the thread variant is requested if and only if that format is
\* linkedin_post.
C31_EnoughEndsWithDraft ==
    [][\A n \in TaskSlots :
          ReplyEndsClean(n) =>
             LET s == activeSessions'[tasks[n].s]
                 idea == MapGet(ideas', s.ideaId)
                 id == tasks[n].draft.id
             IN  /\ s.status = "completed"
                 /\ idea.status = "draft_ready"
                 /\ ~MapHas(pendingDrafts, id)
                 /\ MapHas(pendingDrafts', id)
                 /\ MapGet(pendingDrafts', id).version = 1
                 /\ MapGet(pendingDrafts', id).format = idea.format
                 /\ MapGet(pendingDrafts', id).ideaId = s.ideaId
                 /\ (id \in log'.threads) <=> (idea.format = "linkedin_post")]_vars

\* the step in which the handler of a reply in task n, taken when the history
\* with the reply held fewer than 4 messages, returns or throws
ShortReplyEnds(n) ==
    /\ tasks[n].kind = "reply" /\ tasks[n].len < MinMessages
    /\ tasks'[n].kind = "none"

\* no draft is requested for a session whose history holds fewer than 4 messages
DraftNeedsFour ==
    \A n \in TaskSlots :
        (tasks[n].kind = "reply" /\ tasks[n].pc # "followup") =>
            /\ tasks[n].len >= MinMessages
            /\ Len(activeSessions[tasks[n].s].messages) >= MinMessages

\* C32 as stated: no draft is generated for a session before its history
\* holds at least 4 messages; while the history is shorter, every reply keeps
\* the session active and appends exactly one agent follow-up question.
C32_FollowUpBelowFour ==
    [][/\ DraftNeedsFour
       /\ \A n \in TaskSlots :
             ShortReplyEnds(n) =>
                LET s == tasks[n].s
                IN  /\ activeSessions'[s].status = "active"
                    /\ activeSessions'[s].messages =
                          Append(activeSessions[s].messages,
                                 [role |-> "agent", text |-> AgentText])]_vars

\* C32, amended: no draft is generated for a session before its history holds
\* at least 4 messages; while the history is shorter, the handler of a reply
\* leaves the session's status as it is and appends exactly one agent
\* follow-up question when the follow-up call returns, and nothing when that
\* call fails.
C32_FollowUpUnlessCallFails ==
    [][/\ DraftNeedsFour
       /\ \A n \in TaskSlots :
             ShortReplyEnds(n) =>
                LET s == tasks[n].s
                IN  /\ tasks[n].pc = "followup"
                    /\ activeSessions'[s].status = activeSessions[s].status
                    /\ activeSessions'[s].messages =
                          (IF faults' = faults
                           THEN Append(activeSessions[s].messages,
                                       [role |-> "agent", text |-> AgentText])
                           ELSE activeSessions[s].messages)]_vars

\* the follow-up call of the first reply has failed: the session is active,
\* its history ends with the reply, and no handler is suspended
C32_Witness ==
    /\ faults = 1
    /\ Idle
    /\ \E s \in DOMAIN activeSessions :
          /\ IsActive(s)
          /\ Len(activeSessions[s].messages) = 2
          /\ activeSessions[s].messages[2].role = "user"

-----------------------------------------------------------------------------
(* Properties of a failed rework and of `cancel`, under SpecChat *)

\* the step in which the rework handler in task n ends on a failure of its
\* own: the say of line 553, reworkDraft, or the posts of the delivery
ReworkFails(n) ==
    /\ tasks[n].kind = "rework"
    /\ tasks'[n].kind = "none"
    /\ faults' # faults

\* the step in which rework feedback arrives for a draft that is not in the
\* cache
ReworkOfMissingDraft ==
    /\ MessageStep
    /\ log'.last.to = "rework"
    /\ ~MapHas(pendingDrafts, pendingRework.draftId)

\* C33: if rework handling fails (the original draft is missing from the
\* cache, the rework call of the drafting service fails, or the delivery
\* fails), the user is sent an error message, PendingRework is not left set
\* by that handler, and no new draft is added to the pending-draft cache.
C33_FailedReworkLeavesNothing ==
    [][/\ \A n \in TaskSlots :
             ReworkFails(n) =>
                /\ log'.reworkErrors =
                      Append(log.reworkErrors,
                             [n |-> tasks[n].n,
                              line |-> IF tasks[n].pc = "say" THEN 364 ELSE 595])
                /\ pendingRework' = NoRework
                /\ pendingDrafts' = pendingDrafts
                /\ ~MapHas(pendingDrafts', tasks[n].draft.id)
       /\ ReworkOfMissingDraft =>
             /\ log'.reworkErrors = Append(log.reworkErrors,
                                           [n |-> log'.inbound, line |-> 547])
             /\ pendingRework' = NoRework
             /\ pendingDrafts' = pendingDrafts]_vars

\* the delivery of a reworked draft has failed: the error message was sent,
\* no rework is pending and the cache holds the original draft only
C33_Witness ==
    /\ Idle
    /\ faults = 1
    /\ Len(log.reworkErrors) = 1
    /\ log.reworkErrors[1].line = 595
    /\ \E k \in DOMAIN log.drafts : log.drafts[k].of # NoId
    /\ pendingRework = NoRework
    /\ Len(pendingDrafts) = 1

-----------------------------------------------------------------------------
(* SpecCancel: one interview to its draft, then clicks of `rework`, `Cancel!` *)
(* and replies, one handler at a time                                        *)

CancelInbound == 7

TextCancel == <<"C", "a", "n", "c", "e", "l", "!">>

CancelTexts == {Text1, TextReply, TextCancel}

CancelNext ==
    \/ LoadFromNotion({}, BotSnap, TRUE) /\ UNCHANGED faults
    \/ \E text \in CancelTexts :
          /\ Idle
          /\ log.inbound < CancelInbound
          /\ pendingDrafts = <<>> => text = (IF Started = 0 THEN Text1 ELSE TextReply)
          /\ text = Text1 => Started < StopSessions
          /\ OnMessage(text, NoThread, 1)
          /\ UNCHANGED faults
    \/ \E draftId \in Buttons :
          /\ Idle
          /\ log.inbound < CancelInbound
          /\ log.reworkClicks < MaxReworks
          /\ OnRework(draftId)
          /\ UNCHANGED faults
    \/ ReplyNext
    \/ ReworkNext

SpecCancel == Init /\ [][CancelNext]_vars

\* the step in which `cancel` arrives at top level while a rework is pending
\* and no session is active
CancelOfRework ==
    /\ MessageStep
    /\ log'.last.said = CmdCancel
    /\ log'.last.thread = NoThread
    /\ pendingRework # NoRework
    /\ getLatestActiveSession = 0

\* C34: while a PendingRework exists and no session is active, the message
\* `cancel` clears the PendingRework and sends a reply without making any
\* call of the drafting service or changing any draft; the next message that
\* is not a command is then not treated as rework feedback.
C34_CancelClearsRework ==
    [][/\ CancelOfRework =>
             /\ pendingRework' = NoRework
             /\ log'.last.to = "cancel"
             /\ log'.last.reply = "cancelled"
             /\ tasks' = tasks
             /\ pendingDrafts' = pendingDrafts
             /\ log'.reworkCalls = log.reworkCalls
             /\ log'.drafts = log.drafts
       /\ (MessageStep /\ log.last.to = "cancel" /\ ~IsCommand(log'.last.said)) =>
             /\ log'.last.to # "rework"
             /\ log'.reworkCalls = log.reworkCalls
             /\ \A n \in TaskSlots : tasks'[n].kind # "rework"]_vars

\* after a click of `rework` and `Cancel!`, the reply `Ok.` was taken as no
\* rework feedback: the drafting service was not called and the draft is as
\* delivered
C34_Witness ==
    /\ log.afterClick = <<[n |-> log.inbound - 1, to |-> "cancel"],
                          [n |-> log.inbound, to |-> "command"]>>
    /\ log.last.said = NormalizeText(TextReply)
    /\ log.last.to = "passive"
    /\ log.reworkCalls = <<>>
    /\ Len(pendingDrafts) = 1
    /\ pendingRework = NoRework

-----------------------------------------------------------------------------
(* ContentMiner.updateIdeaStatus (content-miner.ts, lines 246-259), and      *)
(* SpecStatus: status updates for known and unknown ideas, the record store  *)
(* answering or failing                                                      *)

MaxUpdates == 3

UnknownIdeaId == <<"n", "o", "n", "e">>

\* lines 253-257 with a catch that sets the status back and throws again
AfterStoreRolledBack(map, id, was, ok) ==
    [ideas |-> IF ok THEN map ELSE SetIdeaStatus(map, id, was),
     outcome |-> IF ok THEN "returned" ELSE "threw"]

\* lines 253-257: updatePageStatus returned (ok) or threw; the catch logs
AfterStore(map, id, was, ok) ==
    [ideas |-> map, outcome |-> "returned"]

\* lines 247-252: up to the await of updatePageStatus, if there is one
UpdateIdeaStatusCall(id, status) ==
    LET known == MapHas(ideas, id)
        waits == known /\ MapGet(ideas, id).page
    IN  /\ loaded
        /\ HasFreeSlot
        /\ ideas' = SetIdeaStatus(ideas, id, status)
        /\ tasks' = (IF waits
                     THEN StartTask([NoTask EXCEPT !.kind = "status", !.pc = "store",
                                                   !.idea = id, !.n = Len(log.updates) + 1])
                     ELSE tasks)
        /\ log' = [log EXCEPT !.updates =
                      Append(@, [id |-> id, status |-> status, known |-> known,
                                 was |-> IF known THEN MapGet(ideas, id).status ELSE "",
                                 stored |-> IF waits THEN "pending" ELSE "none",
                                 outcome |-> IF waits THEN "pending" ELSE "returned"])]
        /\ UNCHANGED <<transcripts, pendingTranscripts, processing, minedTranscriptIds,
                       knownHooks, drain, mineTasks, activeSessions, pendingDrafts,
                       lastShownIdeas, pendingRework, clock, loaded, seenMeetingIds>>

\* updatePageStatus returned (ok) or threw; updateIdeaStatus ends
StatusStored(n, ok) ==
    LET u == log.updates[tasks[n].n]
        r == AfterStore(ideas, u.id, u.was, ok)
    IN  /\ tasks[n].kind = "status" /\ tasks[n].pc = "store"
        /\ tasks' = EndTask(n)
        /\ ideas' = r.ideas
        /\ log' = [log EXCEPT !.updates[tasks[n].n].outcome = r.outcome,
                              !.updates[tasks[n].n].stored = IF ok THEN "yes" ELSE "no"]
        /\ UNCHANGED <<transcripts, pendingTranscripts, processing, minedTranscriptIds,
                       knownHooks, drain, mineTasks, activeSessions, pendingDrafts,
                       lastShownIdeas, pendingRework, clock, loaded, seenMeetingIds>>

StatusNext ==
    \/ LoadFromNotion({}, BotSnap, TRUE) /\ UNCHANGED faults
    \/ \E id \in {NotionIdeaIds[1], NotionIdeaIds[2], UnknownIdeaId},
          status \in {"interviewing", "draft_ready"} :
          /\ Len(log.updates) < MaxUpdates
          /\ UpdateIdeaStatusCall(id, status)
          /\ UNCHANGED faults
    \/ \E n \in TaskSlots, ok \in BOOLEAN : Outcome(ok) /\ StatusStored(n, ok)

SpecStatus == Init /\ [][StatusNext]_vars

\* the step is a call of updateIdeaStatus
StatusCalled == Len(log'.updates) = Len(log.updates) + 1

\* C35: a status update changes the in-memory status even when propagating it
\* to the record store fails: the failure is absorbed, the in-memory status
\* is not rolled back and the caller sees no exception; an update for an
\* unknown idea id changes nothing.
C35_StatusKeptWhenStoreFails ==
    [][/\ StatusCalled =>
             LET u == log'.updates[Len(log'.updates)]
             IN  IF u.known
                 THEN /\ MapGet(ideas', u.id).status = u.status
                      /\ \A i \in DOMAIN ideas :
                            ideas[i].id # u.id => ideas'[i] = ideas[i]
                 ELSE /\ ideas' = ideas
                      /\ tasks' = tasks
                      /\ u.outcome = "returned"
       /\ \A n \in TaskSlots :
             (tasks[n].kind = "status" /\ tasks'[n].kind = "none") =>
                /\ ideas' = ideas
                /\ log'.updates[tasks[n].n].outcome = "returned"]_vars

\* the record store has failed to take the update of an idea to draft_ready:
\* the call has returned and the idea is draft_ready in memory
C35_Witness ==
    /\ Idle
    /\ faults = 1
    /\ \E k \in DOMAIN log.updates :
          /\ log.updates[k].stored = "no"
          /\ log.updates[k].outcome = "returned"
          /\ log.updates[k].was = "extracted"
          /\ log.updates[k].status = "draft_ready"
          /\ getIdea(log.updates[k].id).status = "draft_ready"
    /\ \E k \in DOMAIN log.updates : ~log.updates[k].known

-----------------------------------------------------------------------------
(* Properties of the cached transcripts, under SpecBatch *)

\* C36: mining never changes the content of a cached transcript once that
\* content is populated; the only change is the lazy filling of content that
\* was empty.  (The model holds the length of the content: a change of the
\* length is a change of the content.)
C36_PopulatedContentKept ==
    [][\A t \in DOMAIN transcripts :
          transcripts[t].len > 0 => transcripts'[t].len = transcripts[t].len]_vars

-----------------------------------------------------------------------------
(* Properties of the submissions for idea extraction, under SpecMiner *)

\* the batch a mining call has with the drafting service
InFlight(n) ==
    IF mineTasks[n].pc = "brain"
    THEN SeqToSet(MineBatch(mineTasks[n].wc, mineTasks[n].i))
    ELSE {}

\* C37: no transcript is submitted to the drafting service for idea
\* extraction more than once in a process lifetime, counting the drain of the
\* queue and the mining on demand, overlapping calls of it included.  Here: no
\* batch of the drain repeats a transcript of an earlier one, no batch of a
\* mining call holds a transcript the drain has submitted, and no two mining
\* calls have the same transcript with the drafting service.
C37_SubmittedOnce ==
    /\ \A j, k \in DOMAIN Flatten(log.submitted) :
          j # k => Flatten(log.submitted)[j] # Flatten(log.submitted)[k]
    /\ \A n \in MineSlots : InFlight(n) \cap SeqToSet(Flatten(log.submitted)) = {}
    /\ \A n, m \in MineSlots : n # m => InFlight(n) \cap InFlight(m) = {}

-----------------------------------------------------------------------------
(* Properties of the status of an idea *)

\* the place of a status in extracted, interviewing, drafting, draft_ready,
\* published (types/index.ts, ContentIdea.status)
StatusRank(status) ==
    CASE status = "extracted" -> 1
      [] status = "interviewing" -> 2
      [] status = "drafting" -> 3
      [] status = "draft_ready" -> 4
      [] status = "published" -> 5

\* C38: the status of an idea never moves backward in the order extracted,
\* interviewing, drafting, draft_ready, published; in particular an interview
\* started by `draft <id>` or by a number never sets an idea that is
\* draft_ready back to interviewing.
C38_StatusNeverBackward ==
    [][\A i \in DOMAIN ideas :
          MapHas(ideas', ideas[i].id) =>
             StatusRank(MapGet(ideas', ideas[i].id).status) >= StatusRank(ideas[i].status)]_vars


\* C39: whenever the status of an idea is interviewing and no handler is
\* suspended on an external call, some session for that idea is active:
\* neither `stop` nor a failed draft generation leaves an idea interviewing
\* with no active session.
C39_InterviewingHasActiveSession ==
    Idle =>
       \A i \in DOMAIN ideas :
          ideas[i].status = "interviewing" =>
             \E s \in DOMAIN activeSessions :
                IsActive(s) /\ activeSessions[s].ideaId = ideas[i].id

-----------------------------------------------------------------------------
(* TldvService.pollNewMeetings, await by await (content-miner.ts, lines      *)
(* 315-402), and SpecPoll: polls of the poll job and of the content cycle    *)
(* that may overlap, and the drain                                           *)

MaxPolls == 2

\* what listMeetings returns: meetings of the last 30 days, each once
PollListings ==
    { m \in SeqsUpTo(TranscriptIds, MaxTranscripts) :
        \A i, j \in DOMAIN m : i # j => m[i] # m[j] }

\* lines 355-361 from position k of the meetings: the loop up to its next
\* await of getTranscript (suspended) or to its end
RECURSIVE PollLoop(_, _, _, _)
PollLoop(meetings, k, seen, trs) ==
    IF k > Len(meetings)
    THEN [k |-> k, seen |-> seen, suspended |-> FALSE]
    ELSE IF meetings[k] \in seen
    THEN PollLoop(meetings, k + 1, seen, trs)
    ELSE IF meetings[k] \in DOMAIN trs
    THEN PollLoop(meetings, k + 1, seen \cup {meetings[k]}, trs)
    ELSE [k |-> k, seen |-> seen, suspended |-> TRUE]

\* the poll from position k with the new transcripts `new` so far, up to its
\* next await or, after the loop, through lines 387-396: queueTranscript for
\* each new transcript
PollAdvance(task, k, seen, trs, new) ==
    LET sc == PollLoop(task.input, k, seen, trs)
    IN  [task |-> IF sc.suspended
                  THEN [task EXCEPT !.pc = "fetch", !.n = sc.k, !.text = new]
                  ELSE NoTask,
         seen |-> sc.seen,
         st |-> IF sc.suspended THEN <<processing, pendingTranscripts, drain>>
                ELSE QueueEach(new, processing, pendingTranscripts, drain)]

PollApply(n, r) ==
    /\ tasks' = [tasks EXCEPT ![n] = r.task]
    /\ seenMeetingIds' = r.seen
    /\ processing' = r.st[1]
    /\ pendingTranscripts' = r.st[2]
    /\ drain' = r.st[3]

PollLog(r, fetch) ==
    [log EXCEPT !.submitted = IF r.st[3] # drain THEN Append(@, r.st[3].batch) ELSE @,
                !.lastFetch = fetch]

NoFetch == [m |-> 0, ready |-> FALSE]

PollFrame ==
    UNCHANGED <<ideas, minedTranscriptIds, knownHooks, mineTasks, clock, loaded,
                activeSessions, pendingDrafts, lastShownIdeas, pendingRework>>

\* the poll job or a content cycle calls pollNewMeetings: up to the await of
\* listMeetings
PollStart ==
    /\ loaded
    /\ HasFreeSlot
    /\ tasks' = StartTask([NoTask EXCEPT !.kind = "poll", !.pc = "list"])
    /\ log' = [log EXCEPT !.polls = @ + 1, !.lastFetch = NoFetch]
    /\ UNCHANGED <<transcripts, pendingTranscripts, processing, drain, seenMeetingIds>>
    /\ PollFrame

\* listMeetings returned `meetings` (ok) or threw (caught at line 398)
PollListed(n, meetings, ok) ==
    /\ tasks[n].kind = "poll" /\ tasks[n].pc = "list"
    /\ IF ok
       THEN LET r == PollAdvance([tasks[n] EXCEPT !.input = meetings], 1,
                                 seenMeetingIds, transcripts, <<>>)
            IN  PollApply(n, r) /\ log' = PollLog(r, NoFetch)
       ELSE /\ tasks' = EndTask(n)
            /\ log' = [Fail("pollNewMeetings", 0) EXCEPT !.lastFetch = NoFetch]
            /\ UNCHANGED <<pendingTranscripts, processing, drain, seenMeetingIds>>
    /\ UNCHANGED transcripts
    /\ PollFrame

\* getTranscript returned the text (ready) or null (not ready, or the call
\* failed); for a text, transcriptStore.save up to its await of saveTranscript
PollFetched(n, ready) ==
    /\ tasks[n].kind = "poll" /\ tasks[n].pc = "fetch"
    /\ LET task == tasks[n]
           m == task.input[task.n]
           fetch == [m |-> m, ready |-> ready]
       IN  IF ~ready
           THEN LET r == PollAdvance(task, task.n + 1, seenMeetingIds, transcripts, task.text)
                IN  /\ PollApply(n, r) /\ log' = PollLog(r, fetch)
                    /\ UNCHANGED transcripts
           ELSE IF m \in DOMAIN transcripts
           THEN LET r == PollAdvance(task, task.n + 1, seenMeetingIds \cup {m}, transcripts,
                                     Append(task.text, m))
                IN  /\ PollApply(n, r) /\ log' = PollLog(r, fetch)
                    /\ UNCHANGED transcripts
           ELSE /\ transcripts' =
                     [t \in DOMAIN transcripts \cup {m} |->
                        IF t = m THEN [len |-> MinContentLen + 1, page |-> FALSE]
                        ELSE transcripts[t]]
                /\ tasks' = [tasks EXCEPT ![n].pc = "save"]
                /\ log' = [log EXCEPT !.lastFetch = fetch]
                /\ UNCHANGED <<pendingTranscripts, processing, drain, seenMeetingIds>>
    /\ PollFrame

\* saveTranscript returned (ok) or threw (caught in save); then lines 384-385
PollSaved(n, ok) ==
    /\ tasks[n].kind = "poll" /\ tasks[n].pc = "save"
    /\ LET task == tasks[n]
           m == task.input[task.n]
           trs == [transcripts EXCEPT ![m].page = ok]
           r == PollAdvance(task, task.n + 1, seenMeetingIds \cup {m}, trs,
                            Append(task.text, m))
       IN  /\ transcripts' = trs
           /\ PollApply(n, r)
           /\ log' = PollLog(r, NoFetch)
    /\ PollFrame

PollNext ==
    \/ \E stored \in SUBSET {1} : LoadFromNotion(stored, <<>>, TRUE) /\ UNCHANGED faults
    \/ log.polls < MaxPolls /\ PollStart /\ UNCHANGED faults
    \/ \E n \in TaskSlots, meetings \in PollListings, ok \in BOOLEAN :
          Outcome(ok) /\ PollListed(n, meetings, ok)
    \/ \E n \in TaskSlots, ready \in BOOLEAN : PollFetched(n, ready) /\ UNCHANGED faults
    \/ \E n \in TaskSlots, ok \in BOOLEAN : Outcome(ok) /\ PollSaved(n, ok)
    \/ \E ret \in Returned, ok \in BOOLEAN :
          /\ Len(ideas) + Len(ret) <= MaxIdeas
          /\ Outcome(ok) /\ DrainExtracted(ret, ok)
    \/ \E ok \in BOOLEAN : Outcome(ok) /\ DrainSaved(ok)

SpecPoll == Init /\ [][PollNext]_vars

\* the transcripts handed to the queue so far, in the order of their enqueue
HandedToQueue == Flatten(log.submitted) \o pendingTranscripts

\* C40: each new meeting transcript is saved and handed to the mining queue
\* at most once in a process lifetime, even when two polls overlap; a meeting
\* whose transcript is not ready is neither marked seen nor enqueued, and a
\* later poll fetches it again.
C40_SavedAndQueuedOnce ==
    /\ [](\A j, k \in DOMAIN HandedToQueue : j # k => HandedToQueue[j] # HandedToQueue[k])
    /\ [](\A n, m \in TaskSlots :
             (n # m /\ tasks[n].pc = "save" /\ tasks[m].pc = "save") =>
                tasks[n].input[tasks[n].n] # tasks[m].input[tasks[m].n])
    /\ [][\A t \in DOMAIN transcripts : transcripts'[t].len = transcripts[t].len]_vars
    /\ [][(log'.lastFetch # NoFetch /\ ~log'.lastFetch.ready) =>
             /\ log'.lastFetch.m \notin seenMeetingIds' \ seenMeetingIds
             /\ log'.lastFetch.m \notin DOMAIN transcripts' \ DOMAIN transcripts
             /\ log'.lastFetch.m \notin
                   SeqToSet(HandedToQueue') \ SeqToSet(HandedToQueue)]_vars
    /\ [][\A n \in TaskSlots :
             (/\ tasks[n].kind = "poll" /\ tasks[n].pc = "list"
              /\ tasks'[n].input # <<>>
              /\ tasks'[n].input[1] \notin seenMeetingIds \cup DOMAIN transcripts)
             => (tasks'[n].pc = "fetch" /\ tasks'[n].n = 1)]_vars

=============================================================================
